---- MODULE Spec2Model ----
(***************************************************************************)
(* Model of the attendance bot (skojaku/discord-attendance).               *)
(*                                                                         *)
(* The bot runs on one asyncio event loop: a coroutine runs without        *)
(* interruption from one suspending await to the next.  Every action below *)
(* is one such segment of a command handler (open_attendance,              *)
(* close_attendance, here) or of the background task _rotate_code_loop.    *)
(* A fetch_message immediately followed by an edit of the fetched message  *)
(* is one await point of the model (nothing of the session is written      *)
(* between the two).                                                       *)
(*                                                                         *)
(* storage/session_manager.py (class AttendanceSession) is modelled from   *)
(* the specification, sections 3, 4.2 and 4.3, and from the way            *)
(* bot/cogs/attendance.py uses it.                                         *)
(***************************************************************************)
EXTENDS Integers, Sequences, FiniteSets, TLC

\* ---------------------------------------------------------------- bounds
MaxUsers == 2
MaxOpens == 2
MaxCloses == 2
MaxSubmits == 2
MaxAdminCmds == 1
MaxDays == 1
MaxDbCalls == 3
MaxRecords == 2
MaxGenLength == 2
MaxDraws == 3

\* config.CODE_LENGTH, here a bound of the model
CODE_LENGTH == 1

\* ------------------------------------------------------------- vocabulary
Users == 1..MaxUsers
OpenIds == 1..MaxOpens
CloseIds == 1..MaxCloses
AdminIds == 1..MaxAdminCmds

AdminChannel == "admin"
AttendanceChannel == "attendance"
Channels == {AdminChannel, AttendanceChannel}

\* No token (Python None) and no identifier (Python None).
NoCode == <<>>
NoId == 0

\* A date that is not given (None), and one that strptime refuses.
NoDate == -1
BadDate == -2

\* What an edited admin message shows once the session is closed.
ClosedEmbed == <<"closed">>

\* An alphabet that keeps the letters I and O.
CharSetWithIO ==
    {"A", "B", "C", "D", "E", "F", "G", "H", "I", "J", "K", "L", "M", "N",
     "O", "P", "Q", "R", "S", "T", "U", "V", "W", "X", "Y", "Z",
     "2", "3", "4", "5", "6", "7", "8", "9"}

\* The alphabet of generate_code as the source has it.
FullCharSet ==
    {"A", "B", "C", "D", "E", "F", "G", "H", "J", "K", "L", "M", "N", "P",
     "Q", "R", "S", "T", "U", "V", "W", "X", "Y", "Z",
     "2", "3", "4", "5", "6", "7", "8", "9"}

\* The characters the alphabet is meant to leave out.
Ambiguous == {"I", "O", "1", "0"}

\* An alphabet that has the letter O.
CharSetWithO == {"A", "O"}

\* The alphabet of generate_code, cut down to two of its letters.
CHAR_SET == {"A", "B"}

UpperChar(c) ==
    CASE c = "a" -> "A"
      [] c = "b" -> "B"
      [] OTHER -> c

LowerChar(c) ==
    CASE c = "A" -> "a"
      [] c = "B" -> "b"
      [] OTHER -> c

\* str.upper()
Upper(s) == [k \in 1..Len(s) |-> UpperChar(s[k])]

RECURSIVE LStrip(_)
LStrip(s) == IF s # <<>> /\ Head(s) = " " THEN LStrip(Tail(s)) ELSE s

RECURSIVE RStrip(_)
RStrip(s) ==
    IF s # <<>> /\ s[Len(s)] = " " THEN RStrip(SubSeq(s, 1, Len(s) - 1)) ELSE s

\* str.strip()
Strip(s) == RStrip(LStrip(s))

\* A normalisation that trims and keeps the letter case.
NormalizeKeepsCase(text) == Strip(text)

\* code.upper().strip()
Normalize(text) == Strip(Upper(text))

\* All strings of the given length over CHAR_SET.
Codes(length) == [1..length -> CHAR_SET]

\* generate_code without the comparison against previous_code.
GenerateCodeAnyCode(length, previous_code) == Codes(length)

\* generate_code with the comparison against previous_code inverted.
GenerateCodeInverted(length, previous_code) ==
    {code \in Codes(length) : previous_code = NoCode \/ code = previous_code}

\* generate_code(length, previous_code): the set of values it can return.
GenerateCode(length, previous_code) ==
    {code \in Codes(length) : code # previous_code}

\* What a participant may type after /here.
Texts ==
    Codes(CODE_LENGTH)
    \cup {[k \in 1..CODE_LENGTH |-> LowerChar(c[k])] : c \in Codes(CODE_LENGTH)}
    \cup {<<" ">> \o c \o <<" ">> : c \in Codes(CODE_LENGTH)}

\* interaction.user.name
UserName(u) == u

\* ------------------------------------------------------------------ state
VARIABLES
    is_active,        \* AttendanceSession.is_active
    current_code,     \* AttendanceSession.current_code
    session_id,       \* AttendanceSession.session_id
    submissions,      \* AttendanceSession ledger: user_id -> entry
    message_id,       \* AttendanceSession.message_id (admin code message)
    attendance_message_id, \* attribute the cog sets on the session manager
    rotation_task,    \* AttendanceCog.rotation_task (task id, NoId for None)
    tasks,            \* every _rotate_code_loop task ever created
    opens,            \* open_attendance invocations
    closes,           \* close_attendance invocations
    display,          \* what each admin code message shows
    display_on,       \* whether this specification follows the messages
    db,               \* rows of the attendance table
    clock,            \* source of datetime.now() for accepted submissions
    prev_code,        \* the token that was current before the last rotation
    acks,             \* per session and participant, the last submission
                      \* acknowledged as recorded
    finalized,        \* session id -> records returned by end_session()
    reported,         \* session ids whose failed save was shown to the operator
    close_log,        \* per close_attendance invocation, the steps it has
                      \* performed so far, in order
    today,            \* the date of datetime.now()
    admins,           \* invocations of the operator's record commands
    gen,              \* a call of generate_code: its arguments, the code
                      \* of its last draw and where it stands
    cfg,              \* the values Config read from the environment and
                      \* where main() stands
    dbcall,           \* the call of AttendanceDatabase just made on its
                      \* own: the function, what it returned and how many
                      \* calls were made
    ev                \* the reply of the handler step just taken: of here
                      \* (with the code it names), of start_session and
                      \* of end_session; for the rotation task, a tick on
                      \* an Inactive coordinator, a failed display update
                      \* or a display update cut short by cancellation

sessVars == <<is_active, current_code, session_id, submissions, message_id>>

vars == <<is_active, current_code, session_id, submissions, message_id,
          attendance_message_id, rotation_task, tasks, opens, closes, display,
          display_on, db, clock, prev_code, acks, finalized, reported,
          close_log, today, admins, gen, cfg, dbcall, ev>>

\* What the handlers of the session (open, close, here, rotation) never
\* change.
otherVars == <<display_on, today, admins, gen, cfg, dbcall>>

NoEv == [kind |-> "none", code |-> NoCode, result |-> "none",
         text |-> NoCode]

\* text is what the participant typed after /here (only here sets it).
Ev(kind, code, result) ==
    [kind |-> kind, code |-> code, result |-> result, text |-> NoCode]

IdleOpen == [pc |-> "idle", code |-> NoCode]

IdleClose == [pc |-> "idle", task |-> NoId, records |-> <<>>,
              session_id |-> NoId, saved_count |-> 0, msg |-> NoId]

\* A step of close_attendance: its name, the task or session it is about,
\* and for end and save the records.
Step(name, id, arg) == [step |-> name, id |-> id, arg |-> arg]

\* A record command of the operator that has not been invoked, and one
\* that has replied.
IdleAdmin == [pc |-> "idle"]

AdminDone == [pc |-> "done"]

\* No call of AttendanceDatabase on its own has been made.
NoCall == [fn |-> "none", records |-> <<>>, user_id |-> NoId,
           date_id |-> NoDate, session_id |-> NoId, status |-> "none",
           returned |-> 0, replaced |-> 0, n |-> 0]

\* No call of generate_code is followed.
NoGen == [pc |-> "none"]

\* main() is not followed.
NoCfg == [pc |-> "none"]

NoTask == [pc |-> "none", cancel |-> FALSE, new_code |-> NoCode, msg |-> NoId]

\* The state after AttendanceCog.__init__ and cog_load.
InitCog ==
    /\ is_active = FALSE
    /\ current_code = NoCode
    /\ session_id = NoId
    /\ submissions = <<>>
    /\ message_id = NoId
    /\ attendance_message_id = NoId
    /\ rotation_task = NoId
    /\ tasks = [t \in OpenIds |-> NoTask]
    /\ opens = [i \in OpenIds |-> IdleOpen]
    /\ closes = [i \in CloseIds |-> IdleClose]
    /\ display = [m \in OpenIds |-> NoCode]
    /\ db = {}
    /\ clock = 0
    /\ prev_code = NoCode
    /\ acks = {}
    /\ finalized = <<>>
    /\ reported = {}
    /\ close_log = [i \in CloseIds |-> <<>>]
    /\ today = 0
    /\ admins = [j \in AdminIds |-> IdleAdmin]
    /\ dbcall = NoCall
    /\ ev = NoEv

\* The admin messages are written and never read by the bot; Spec leaves
\* their content out.
Init == InitCog /\ display_on = FALSE /\ gen = NoGen /\ cfg = NoCfg

\* The reply to a command used in the wrong channel (here, or one of the
\* operator's commands): a message, followed by the specifications that
\* follow the messages.
WrongChannel(kind) ==
    IF display_on THEN Ev(kind, NoCode, "wrong_channel") ELSE NoEv

\* The content of message msg after an edit (or the first post).
Show(msg, content) ==
    IF display_on THEN [display EXCEPT ![msg] = content] ELSE display

\* --------------------------------------------- AttendanceSession (ledger)
\* An upsert that keeps the entry an identity already has.
UpsertKeepsFirst(ledger, user_id, username, at) ==
    IF user_id \in DOMAIN ledger THEN ledger
    ELSE [u \in DOMAIN ledger \cup {user_id} |->
            IF u = user_id
            THEN [user_id |-> user_id, username |-> username, timestamp |-> at]
            ELSE ledger[u]]

\* An upsert that forgets the entries of the other identities.
UpsertAlone(ledger, user_id, username, at) ==
    [u \in {user_id} |->
        [user_id |-> user_id, username |-> username, timestamp |-> at]]

\* A ledger that appends an entry for every accepted submission.
UpsertAppends(ledger, user_id, username, at) ==
    [k \in DOMAIN ledger \cup {at} |->
        IF k = at
        THEN [user_id |-> user_id, username |-> username, timestamp |-> at]
        ELSE ledger[k]]

\* Ledger.upsert: a later entry for the same identity replaces the earlier.
Upsert(ledger, user_id, username, at) ==
    [u \in DOMAIN ledger \cup {user_id} |->
        IF u = user_id
        THEN [user_id |-> user_id, username |-> username, timestamp |-> at]
        ELSE ledger[u]]

\* get_submission_count()
SubmissionCount(ledger) == Cardinality(DOMAIN ledger)

RECURSIVE SortedByTimestamp(_)
SortedByTimestamp(entries) ==
    IF entries = {} THEN <<>>
    ELSE LET first == CHOOSE e \in entries :
                          \A o \in entries : e.timestamp <= o.timestamp
         IN  <<first>> \o SortedByTimestamp(entries \ {first})

\* A drain that lists the entries in the order of the participants.
DrainByUser(ledger) ==
    [k \in 1..Cardinality(DOMAIN ledger) |->
        ledger[CHOOSE u \in DOMAIN ledger :
                   Cardinality({v \in DOMAIN ledger : v <= u}) = k]]

\* Ledger.drain: the entries ordered by acceptance timestamp ascending.
Drain(ledger) == SortedByTimestamp({ledger[u] : u \in DOMAIN ledger})

\* submit_attendance(user_id, username, code): the outcome of the call.
SubmitOutcome(code) ==
    IF ~is_active THEN "NoActiveSession"
    ELSE IF code # current_code THEN "InvalidCode"
    ELSE "ok"

\* A start_session that makes a new identifier only when the coordinator
\* has none.
StartSessionKeepsId(code, msg, sid) ==
    /\ is_active' = TRUE
    /\ current_code' = code
    /\ session_id' = IF session_id = NoId THEN sid ELSE session_id
    /\ submissions' = <<>>
    /\ message_id' = msg

\* start_session(code, message_id, channel_id) on an Inactive coordinator.
StartSession(code, msg, sid) ==
    /\ is_active' = TRUE
    /\ current_code' = code
    /\ session_id' = sid
    /\ submissions' = <<>>
    /\ message_id' = msg

\* update_code(new_code): a no-op when Inactive.
UpdateCode(new_code) ==
    /\ current_code' = IF is_active THEN new_code ELSE current_code
    /\ UNCHANGED <<is_active, session_id, submissions, message_id>>

\* end_session() on an Active coordinator: stops accepting and drains.
EndSession ==
    /\ is_active' = FALSE
    /\ submissions' = <<>>
    /\ UNCHANGED <<current_code, session_id, message_id>>

\* reset(): back to the state after construction.
Reset ==
    /\ is_active' = FALSE
    /\ current_code' = NoCode
    /\ session_id' = NoId
    /\ submissions' = <<>>
    /\ message_id' = NoId

\* ----------------------------------------------------------------- time
\* A timestamp is the date and the time of day: the day has room for every
\* tick of the clock.
TicksPerDay == MaxSubmits + 1

Dates == 0..MaxDays

\* datetime.now()
Now == today * TicksPerDay + clock

\* timestamp.strftime('%Y-%m-%d')
DateOf(timestamp) == timestamp \div TicksPerDay

\* ------------------------------------------------------ AttendanceDatabase
\* The identifier add_manual_attendance makes up for a date: 'manual_...'
\* sorts after every identifier of a session.
ManualSession(date_id) == MaxOpens + 1 + date_id

\* A list of rows put into the table, one after the other, each replacing
\* the row of its (user_id, session_id).
RECURSIVE InsertOrReplace(_, _)
InsertOrReplace(table, rows) ==
    IF rows = <<>> THEN table
    ELSE InsertOrReplace(
             {r \in table : ~(r.user_id = Head(rows).user_id
                              /\ r.session_id = Head(rows).session_id)}
                 \cup {Head(rows)},
             Tail(rows))

\* save_attendance_records: INSERT OR REPLACE under UNIQUE(user_id,
\* session_id), for every record; status is the column's default.
SaveAttendanceRecords(table, records, sid) ==
    InsertOrReplace(table,
        [k \in 1..Len(records) |->
            [user_id |-> records[k].user_id,
             username |-> records[k].username,
             timestamp |-> records[k].timestamp,
             date_id |-> DateOf(records[k].timestamp),
             session_id |-> sid,
             status |-> "present"]])

\* A save_attendance_records that returns 0 whatever it is given.
SavedCountNone(records) == 0

\* What save_attendance_records returns.
SavedCount(records) == Len(records)

\* A selection that, given no filter, takes every row of the participant.
RowsForAnyWithoutFilter(table, user_id, date_id, sid) ==
    IF sid # NoId
    THEN {r \in table : r.user_id = user_id /\ r.session_id = sid}
    ELSE IF date_id # NoDate
    THEN {r \in table : r.user_id = user_id /\ r.date_id = date_id}
    ELSE {r \in table : r.user_id = user_id}

\* The rows the WHERE clause of remove_attendance, update_attendance_status
\* and get_attendance_record selects: by session when one is given, else
\* by date, and none without a filter.
RowsFor(table, user_id, date_id, sid) ==
    IF sid # NoId
    THEN {r \in table : r.user_id = user_id /\ r.session_id = sid}
    ELSE IF date_id # NoDate
    THEN {r \in table : r.user_id = user_id /\ r.date_id = date_id}
    ELSE {}

\* get_attendance_record: the rows it selects, of which it returns the one
\* of the greatest session_id (None when there is none).
GetAttendanceRecord(table, user_id, date_id, sid) ==
    LET rows == RowsFor(table, user_id, date_id, sid)
    IN  {r \in rows : \A q \in rows : q.session_id <= r.session_id}

\* A choice of the session that takes the least session_id of the date.
ManualSessionForLeast(table, date_id, sid) ==
    LET onDate == {r.session_id : r \in {q \in table : q.date_id = date_id}}
    IN  IF sid # NoId THEN sid
        ELSE IF onDate # {}
        THEN CHOOSE m \in onDate : \A n \in onDate : m <= n
        ELSE ManualSession(date_id)

\* The session add_manual_attendance writes to: the one given, else the
\* greatest session_id that has a row of that date, else a manual one.
ManualSessionFor(table, date_id, sid) ==
    LET onDate == {r.session_id : r \in {q \in table : q.date_id = date_id}}
    IN  IF sid # NoId THEN sid
        ELSE IF onDate # {}
        THEN CHOOSE m \in onDate : \A n \in onDate : n <= m
        ELSE ManualSession(date_id)

\* An add_manual_attendance that adds its row and leaves the others.
AddManualAttendanceAppends(table, user_id, name, date_id, sid, st, now) ==
    table \cup {[user_id |-> user_id, username |-> name,
                 timestamp |-> now, date_id |-> date_id,
                 session_id |-> ManualSessionFor(table, date_id, sid),
                 status |-> st]}

\* add_manual_attendance: INSERT OR REPLACE of one row.
AddManualAttendance(table, user_id, name, date_id, sid, st, now) ==
    InsertOrReplace(table,
        <<[user_id |-> user_id, username |-> name,
           timestamp |-> now, date_id |-> date_id,
           session_id |-> ManualSessionFor(table, date_id, sid),
           status |-> st]>>)

\* remove_attendance: DELETE of the selected rows.
RemoveAttendance(table, user_id, date_id, sid) ==
    table \ RowsFor(table, user_id, date_id, sid)

\* update_attendance_status: UPDATE of the selected rows.
UpdateAttendanceStatus(table, user_id, status, date_id, sid) ==
    {IF r \in RowsFor(table, user_id, date_id, sid)
     THEN [r EXCEPT !.status = status] ELSE r : r \in table}

\* ------------------------------------------------------------------- here
\* A here command that confirms a submission refused as invalid.
HereReplyConfirmsInvalid(outcome) ==
    CASE outcome = "ok" -> "recorded"
      [] outcome = "NoActiveSession" -> "no_session"
      [] outcome = "InvalidCode" -> "recorded"

\* The reply of the here command for each outcome of submit_attendance.
HereReply(outcome) ==
    CASE outcome = "ok" -> "recorded"
      [] outcome = "NoActiveSession" -> "no_session"
      [] outcome = "InvalidCode" -> "invalid"

Here(u, text, ch) ==
    IF ch # AttendanceChannel
    THEN /\ ev' = WrongChannel("here")
         /\ UNCHANGED <<sessVars, attendance_message_id, rotation_task,
                        tasks, opens, closes, display, otherVars, db, clock,
                        prev_code, acks, finalized, reported,
                        close_log>>
    ELSE LET code_upper == Normalize(text)
             outcome == SubmitOutcome(code_upper)
         IN  /\ ev' = [Ev("here",
                            IF outcome = "NoActiveSession" THEN NoCode
                            ELSE code_upper,
                            HereReply(outcome))
                            EXCEPT !.text = IF outcome = "NoActiveSession"
                                            THEN NoCode ELSE text]
             /\ IF outcome = "ok"
                THEN /\ clock < MaxSubmits
                     /\ clock' = clock + 1
                     /\ submissions' =
                            Upsert(submissions, u, UserName(u),
                                   today * TicksPerDay + clock + 1)
                     /\ acks' = {a \in acks : ~(a.user_id = u
                                       /\ a.session_id = session_id)}
                                \cup {[user_id |-> u,
                                       session_id |-> session_id,
                                       timestamp |->
                                           today * TicksPerDay + clock + 1]}
                ELSE UNCHANGED <<clock, submissions, acks>>
             /\ UNCHANGED <<is_active, current_code, session_id, message_id,
                            attendance_message_id, rotation_task, tasks,
                            opens, closes, display, otherVars, db,
                            prev_code, finalized, reported,
                            close_log>>

\* -------------------------------------------------------- open_attendance
OpenDone == [IdleOpen EXCEPT !.pc = "done"]

\* Channel check, generate_code, then suspend in admin_channel.send.
OpenBegin(i, ch) ==
    /\ opens[i].pc = "idle"
    /\ IF i = 1 THEN TRUE ELSE opens[i - 1].pc # "idle"
    /\ IF ch # AdminChannel
       THEN /\ ev' = WrongChannel("operator")
            /\ UNCHANGED opens
       ELSE \E initial_code \in GenerateCode(CODE_LENGTH, NoCode) :
              /\ opens' = [opens EXCEPT ![i] = [IdleOpen EXCEPT
                                !.pc = "send_admin", !.code = initial_code]]
              /\ ev' = NoEv
    /\ UNCHANGED <<sessVars, attendance_message_id, rotation_task, tasks,
                   closes, display, otherVars, db, clock, prev_code, acks,
                   finalized, reported,
                   close_log>>

\* admin_channel.send returned (message i now shows the code) or raised;
\* then suspend in attendance_channel.send.
OpenSentAdmin(i, sent) ==
    /\ opens[i].pc = "send_admin"
    /\ IF sent
       THEN /\ display' = Show(i, opens[i].code)
            /\ opens' = [opens EXCEPT ![i].pc = "send_att"]
            /\ ev' = NoEv
       ELSE /\ opens' = [opens EXCEPT ![i] = OpenDone]
            /\ ev' = NoEv
            /\ UNCHANGED display
    /\ UNCHANGED <<otherVars, sessVars, attendance_message_id,
                   rotation_task, tasks, closes, db, clock, prev_code, acks,
                   finalized, reported,
                   close_log>>

\* An open_attendance that creates the rotation task before start_session.
OpenStartTaskFirst(i, sent) ==
    /\ opens[i].pc = "send_att"
    /\ IF ~sent
       THEN /\ opens' = [opens EXCEPT ![i] = OpenDone]
            /\ ev' = NoEv
            /\ UNCHANGED <<sessVars, attendance_message_id, rotation_task,
                           tasks, prev_code>>
       ELSE /\ rotation_task' = i
            /\ tasks' = [tasks EXCEPT ![i] = [NoTask EXCEPT !.pc = "new"]]
            /\ opens' = [opens EXCEPT ![i] = OpenDone]
            /\ IF is_active
               THEN /\ ev' = Ev("open_start", NoCode, "SessionAlreadyActive")
                    /\ UNCHANGED <<sessVars, attendance_message_id,
                                   prev_code>>
               ELSE /\ StartSession(opens[i].code, i, i)
                    /\ attendance_message_id' = i
                    /\ prev_code' = NoCode
                    /\ ev' = Ev("open_start", NoCode, "started")
    /\ UNCHANGED <<closes, display, otherVars, db, clock, acks, finalized,
                   reported,
                   close_log>>

\* attendance_channel.send returned or raised; on return start_session,
\* remember the attendance message, create the rotation task, reply.
OpenStart(i, sent) ==
    /\ opens[i].pc = "send_att"
    /\ IF ~sent
       THEN /\ opens' = [opens EXCEPT ![i] = OpenDone]
            /\ ev' = NoEv
            /\ UNCHANGED <<sessVars, attendance_message_id, rotation_task,
                           tasks, prev_code>>
       ELSE IF is_active
       THEN /\ opens' = [opens EXCEPT ![i] = OpenDone]
            /\ ev' = Ev("open_start", NoCode, "SessionAlreadyActive")
            /\ UNCHANGED <<sessVars, attendance_message_id, rotation_task,
                           tasks, prev_code>>
       ELSE /\ StartSession(opens[i].code, i, i)
            /\ attendance_message_id' = i
            /\ rotation_task' = i
            /\ tasks' = [tasks EXCEPT ![i] = [NoTask EXCEPT !.pc = "new"]]
            /\ prev_code' = NoCode
            /\ opens' = [opens EXCEPT ![i] = OpenDone]
            /\ ev' = Ev("open_start", NoCode, "started")
    /\ UNCHANGED <<closes, display, otherVars, db, clock, acks, finalized,
                   reported,
                   close_log>>

\* ------------------------------------------------------- close_attendance
CloseDone == [IdleClose EXCEPT !.pc = "done"]

\* What close i does in its current segment before it calls end_session:
\* its await of the cancelled task returns, or (first segment) it cancels
\* and awaits a task that is done already, or there is no task.
BeforeEnd(i) ==
    IF closes[i].pc = "await_task"
    THEN <<Step("awaited", closes[i].task, <<>>)>>
    ELSE IF rotation_task # NoId
    THEN <<Step("cancel", rotation_task, <<>>),
           Step("awaited", rotation_task, <<>>)>>
    ELSE <<>>

\* end_session() returned records for session sid and
\* save_attendance_records is called with them; with no records it
\* returns at once.
EndSteps(sid, records) ==
    <<Step("end", sid, records), Step("save", sid, records)>>
    \o (IF records = <<>> THEN <<Step("saved", sid, <<>>)>> ELSE <<>>)

\* A close_attendance that calls reset() when end_session is refused.
CloseEndResetsOnRefusal(i) ==
    IF ~is_active
    THEN /\ closes' = [closes EXCEPT ![i] = CloseDone]
         /\ ev' = Ev("close_end", NoCode, "NoActiveSession")
         /\ close_log' = [close_log EXCEPT ![i] =
                @ \o BeforeEnd(i) \o <<Step("end_refused", NoId, <<>>)>>]
         /\ Reset
         /\ UNCHANGED finalized
    ELSE LET records == Drain(submissions)
         IN  /\ EndSession
             /\ finalized' = [s \in DOMAIN finalized \cup {session_id} |->
                                IF s = session_id THEN records
                                ELSE finalized[s]]
             /\ ev' = Ev("close_end", NoCode, "ended")
             /\ close_log' = [close_log EXCEPT ![i] =
                    @ \o BeforeEnd(i) \o EndSteps(session_id, records)]
             /\ closes' = [closes EXCEPT ![i] =
                    IF records = <<>>
                    THEN [IdleClose EXCEPT
                            !.pc = IF message_id # NoId THEN "edit_admin"
                                   ELSE "edit_att",
                            !.session_id = session_id,
                            !.msg = message_id]
                    ELSE [IdleClose EXCEPT
                            !.pc = "save",
                            !.records = records,
                            !.session_id = session_id]]

\* A close_attendance that copies the ledger instead of calling
\* end_session, leaving the session to reset().
CloseEndCopiesLedger(i) ==
    IF ~is_active
    THEN /\ closes' = [closes EXCEPT ![i] = CloseDone]
         /\ ev' = Ev("close_end", NoCode, "NoActiveSession")
         /\ close_log' = [close_log EXCEPT ![i] =
                @ \o BeforeEnd(i) \o <<Step("end_refused", NoId, <<>>)>>]
         /\ UNCHANGED <<sessVars, finalized>>
    ELSE LET records == Drain(submissions)
         IN  /\ UNCHANGED sessVars
             /\ finalized' = [s \in DOMAIN finalized \cup {session_id} |->
                                IF s = session_id THEN records
                                ELSE finalized[s]]
             /\ ev' = Ev("close_end", NoCode, "ended")
             /\ close_log' = [close_log EXCEPT ![i] =
                    @ \o BeforeEnd(i) \o EndSteps(session_id, records)]
             /\ closes' = [closes EXCEPT ![i] =
                    IF records = <<>>
                    THEN [IdleClose EXCEPT
                            !.pc = IF message_id # NoId THEN "edit_admin"
                                   ELSE "edit_att",
                            !.session_id = session_id,
                            !.msg = message_id]
                    ELSE [IdleClose EXCEPT
                            !.pc = "save",
                            !.records = records,
                            !.session_id = session_id]]

\* A close_attendance that does not call save_attendance_records.
CloseEndSkipsSave(i) ==
    IF ~is_active
    THEN /\ closes' = [closes EXCEPT ![i] = CloseDone]
         /\ ev' = Ev("close_end", NoCode, "NoActiveSession")
         /\ close_log' = [close_log EXCEPT ![i] =
                @ \o BeforeEnd(i) \o <<Step("end_refused", NoId, <<>>)>>]
         /\ UNCHANGED <<sessVars, finalized>>
    ELSE LET records == Drain(submissions)
         IN  /\ EndSession
             /\ finalized' = [s \in DOMAIN finalized \cup {session_id} |->
                                IF s = session_id THEN records
                                ELSE finalized[s]]
             /\ ev' = Ev("close_end", NoCode, "ended")
             /\ close_log' = [close_log EXCEPT ![i] =
                    @ \o BeforeEnd(i)
                      \o <<Step("end", session_id, records)>>]
             /\ closes' = [closes EXCEPT ![i] =
                    [IdleClose EXCEPT
                        !.pc = IF message_id # NoId THEN "edit_admin"
                               ELSE "edit_att",
                        !.session_id = session_id,
                        !.msg = message_id]]

\* end_session() and what follows it up to the next suspension.  With no
\* records save_attendance_records returns 0 without suspending and the
\* handler goes on to fetch the admin message (message_id is set by every
\* start_session and end_session leaves it).
CloseEnd(i) ==
    IF ~is_active
    THEN /\ closes' = [closes EXCEPT ![i] = CloseDone]
         /\ ev' = Ev("close_end", NoCode, "NoActiveSession")
         /\ close_log' = [close_log EXCEPT ![i] =
                @ \o BeforeEnd(i) \o <<Step("end_refused", NoId, <<>>)>>]
         /\ UNCHANGED <<sessVars, finalized>>
    ELSE LET records == Drain(submissions)
         IN  /\ EndSession
             /\ finalized' = [s \in DOMAIN finalized \cup {session_id} |->
                                IF s = session_id THEN records
                                ELSE finalized[s]]
             /\ ev' = Ev("close_end", NoCode, "ended")
             /\ close_log' = [close_log EXCEPT ![i] =
                    @ \o BeforeEnd(i) \o EndSteps(session_id, records)]
             /\ closes' = [closes EXCEPT ![i] =
                    IF records = <<>>
                    THEN [IdleClose EXCEPT
                            !.pc = IF message_id # NoId THEN "edit_admin"
                                   ELSE "edit_att",
                            !.session_id = session_id,
                            !.msg = message_id]
                    ELSE [IdleClose EXCEPT
                            !.pc = "save",
                            !.records = records,
                            !.session_id = session_id]]

\* Channel check, cancel the rotation task and await it; a task that is
\* already done is awaited without suspending.
CloseBegin(i, ch) ==
    /\ closes[i].pc = "idle"
    /\ IF i = 1 THEN TRUE ELSE closes[i - 1].pc # "idle"
    /\ IF ch # AdminChannel
       THEN /\ ev' = WrongChannel("operator")
            /\ UNCHANGED <<sessVars, finalized, tasks, closes, close_log>>
       ELSE IF rotation_task # NoId /\ tasks[rotation_task].pc # "done"
       THEN /\ tasks' = [tasks EXCEPT ![rotation_task].cancel = TRUE]
            /\ closes' = [closes EXCEPT ![i] = [IdleClose EXCEPT
                              !.pc = "await_task", !.task = rotation_task]]
            /\ close_log' = [close_log EXCEPT ![i] =
                   @ \o <<Step("cancel", rotation_task, <<>>)>>]
            /\ ev' = NoEv
            /\ UNCHANGED <<sessVars, finalized>>
       ELSE /\ CloseEnd(i)
            /\ UNCHANGED tasks
    /\ UNCHANGED <<attendance_message_id, rotation_task, opens, display,
                   otherVars, db, clock, prev_code, acks, reported>>

\* A close_attendance that goes on to end_session before the cancelled
\* task has finished.
CloseAwaitedEarly(i) ==
    /\ closes[i].pc = "await_task"
    /\ CloseEnd(i)
    /\ UNCHANGED <<attendance_message_id, rotation_task, tasks, opens,
                   display, otherVars, db, clock, prev_code, acks,
                   reported>>

\* The awaited rotation task has finished.
CloseAwaited(i) ==
    /\ closes[i].pc = "await_task"
    /\ tasks[closes[i].task].pc = "done"
    /\ CloseEnd(i)
    /\ UNCHANGED <<attendance_message_id, rotation_task, tasks, opens,
                   display, otherVars, db, clock, prev_code, acks,
                   reported>>

\* A close_attendance that calls save_attendance_records again when it
\* failed.
CloseSavedRetries(i, saved) ==
    /\ closes[i].pc = "save"
    /\ IF saved
       THEN /\ db' = SaveAttendanceRecords(db, closes[i].records,
                                           closes[i].session_id)
            /\ closes' = [closes EXCEPT ![i] = [IdleClose EXCEPT
                    !.pc = IF message_id # NoId THEN "edit_admin"
                           ELSE "edit_att",
                    !.session_id = closes[i].session_id,
                    !.saved_count = SavedCount(closes[i].records),
                    !.msg = message_id]]
            /\ close_log' = [close_log EXCEPT ![i] =
                   @ \o <<Step("saved", closes[i].session_id, <<>>)>>]
            /\ ev' = NoEv
            /\ UNCHANGED reported
       ELSE /\ UNCHANGED closes
            /\ reported' = reported \cup {closes[i].session_id}
            /\ close_log' = [close_log EXCEPT ![i] =
                   @ \o <<Step("save_failed", closes[i].session_id, <<>>),
                          Step("save", closes[i].session_id,
                               closes[i].records)>>]
            /\ ev' = NoEv
            /\ UNCHANGED db
    /\ UNCHANGED <<sessVars, attendance_message_id, rotation_task, tasks,
                   opens, display, otherVars, clock, prev_code, acks,
                   finalized>>

\* save_attendance_records returned or raised.  On return the handler reads
\* message_id and suspends fetching that message; on an exception it
\* reports the error and ends without reset().
CloseSaved(i, saved) ==
    /\ closes[i].pc = "save"
    /\ IF saved
       THEN /\ db' = SaveAttendanceRecords(db, closes[i].records,
                                           closes[i].session_id)
            /\ closes' = [closes EXCEPT ![i] = [IdleClose EXCEPT
                    !.pc = IF message_id # NoId THEN "edit_admin"
                           ELSE "edit_att",
                    !.session_id = closes[i].session_id,
                    !.saved_count = SavedCount(closes[i].records),
                    !.msg = message_id]]
            /\ close_log' = [close_log EXCEPT ![i] =
                   @ \o <<Step("saved", closes[i].session_id, <<>>)>>]
            /\ ev' = NoEv
            /\ UNCHANGED reported
       ELSE /\ closes' = [closes EXCEPT ![i] = CloseDone]
            /\ reported' = reported \cup {closes[i].session_id}
            /\ close_log' = [close_log EXCEPT ![i] =
                   @ \o <<Step("save_failed", closes[i].session_id, <<>>)>>]
            /\ ev' = NoEv
            /\ UNCHANGED db
    /\ UNCHANGED <<sessVars, attendance_message_id, rotation_task, tasks,
                   opens, display, otherVars, clock, prev_code, acks,
                   finalized>>

\* The admin message was fetched and edited, or that failed (logged); then
\* suspend fetching the attendance-channel message (its id is set by every
\* successful open and never cleared).
CloseEditedAdmin(i, edited) ==
    /\ closes[i].pc = "edit_admin"
    /\ display' = IF edited
                  THEN Show(closes[i].msg, ClosedEmbed)
                  ELSE display
    /\ closes' = [closes EXCEPT ![i].pc = "edit_att", ![i].msg = NoId]
    /\ ev' = NoEv
    /\ UNCHANGED <<otherVars, sessVars, attendance_message_id,
                   rotation_task, tasks, opens, db, clock, prev_code, acks,
                   finalized, reported,
                   close_log>>

\* The attendance-channel message was edited or that failed (logged); then
\* reset() and the confirmation to the operator.
CloseReset(i) ==
    /\ closes[i].pc = "edit_att"
    /\ Reset
    /\ closes' = [closes EXCEPT ![i] = CloseDone]
    /\ close_log' = [close_log EXCEPT ![i] =
           @ \o <<Step("reset", NoId, <<>>)>>]
    /\ ev' = NoEv
    /\ UNCHANGED <<attendance_message_id, rotation_task, tasks, opens,
                   display, otherVars, db, clock, prev_code, acks,
                   finalized, reported>>

\* ------------------------------------------------------ _rotate_code_loop
DoneTask == [NoTask EXCEPT !.pc = "done"]

\* The loop condition `while self.session_manager.is_active`.
LoopTask == IF is_active THEN [NoTask EXCEPT !.pc = "sleep"] ELSE DoneTask

\* First run of the task: cancelled before it ran, or enters the loop.
RotStart(t) ==
    /\ tasks[t].pc = "new"
    /\ tasks' = [tasks EXCEPT ![t] = IF tasks[t].cancel THEN DoneTask
                                     ELSE LoopTask]
    /\ ev' = NoEv
    /\ UNCHANGED <<sessVars, attendance_message_id, rotation_task, opens,
                   closes, display, otherVars, db, clock, prev_code, acks,
                   finalized, reported,
                   close_log>>

\* A rotation loop that does not look at is_active after the sleep and
\* writes the new code itself.
RotTickBlind(t) ==
    /\ tasks[t].pc = "sleep"
    /\ IF tasks[t].cancel
       THEN /\ tasks' = [tasks EXCEPT ![t] = DoneTask]
            /\ ev' = IF tasks[t].cancel THEN NoEv
                     ELSE Ev("tick", NoCode, "inactive")
            /\ UNCHANGED <<sessVars, prev_code>>
       ELSE \E new_code \in GenerateCode(CODE_LENGTH, current_code) :
              /\ current_code' = new_code
              /\ UNCHANGED <<is_active, session_id, submissions, message_id>>
              /\ prev_code' = current_code
              /\ tasks' = [tasks EXCEPT ![t] =
                    IF message_id # NoId
                    THEN [NoTask EXCEPT !.pc = "edit",
                                        !.new_code = new_code,
                                        !.msg = message_id]
                    ELSE [NoTask EXCEPT !.pc = "sleep"]]
              /\ ev' = NoEv
    /\ UNCHANGED <<attendance_message_id, rotation_task, opens, closes,
                   display, otherVars, db, clock, acks, finalized,
                   reported,
                   close_log>>

\* asyncio.sleep returned (or raised CancelledError): re-check is_active,
\* generate a new code, update_code, suspend fetching the admin message.
\* ev records a tick that found the coordinator Inactive.
RotTick(t) ==
    /\ tasks[t].pc = "sleep"
    /\ IF tasks[t].cancel \/ ~is_active
       THEN /\ tasks' = [tasks EXCEPT ![t] = DoneTask]
            /\ ev' = IF tasks[t].cancel THEN NoEv
                     ELSE Ev("tick", NoCode, "inactive")
            /\ UNCHANGED <<sessVars, prev_code>>
       ELSE \E new_code \in GenerateCode(CODE_LENGTH, current_code) :
              /\ UpdateCode(new_code)
              /\ prev_code' = current_code
              /\ tasks' = [tasks EXCEPT ![t] =
                    IF message_id # NoId
                    THEN [NoTask EXCEPT !.pc = "edit",
                                        !.new_code = new_code,
                                        !.msg = message_id]
                    ELSE [NoTask EXCEPT !.pc = "sleep"]]
              /\ ev' = NoEv
    /\ UNCHANGED <<attendance_message_id, rotation_task, opens, closes,
                   display, otherVars, db, clock, acks, finalized,
                   reported,
                   close_log>>

\* A rotation loop that resets the coordinator when the display update
\* fails.
RotEditedResetsOnError(t, outcome) ==
    /\ tasks[t].pc = "edit"
    /\ display' = IF outcome = "ok"
                  THEN Show(tasks[t].msg, tasks[t].new_code)
                  ELSE display
    /\ tasks' = [tasks EXCEPT ![t] =
            IF tasks[t].cancel \/ outcome = "NotFound" THEN DoneTask
            ELSE LoopTask]
    /\ ev' = IF tasks[t].cancel
             THEN Ev("edit", tasks[t].new_code, "cancelled")
             ELSE IF outcome = "ok" THEN NoEv
             ELSE Ev("edit", tasks[t].new_code, outcome)
    /\ IF tasks[t].cancel \/ outcome = "ok"
       THEN UNCHANGED sessVars
       ELSE Reset
    /\ UNCHANGED <<otherVars, attendance_message_id, rotation_task, opens,
                   closes, db, clock, prev_code, acks, finalized, reported,
                   close_log>>

\* A rotation loop whose handler of a failed display update also catches
\* the cancellation and goes on.
RotEditedSwallowsCancel(t, outcome) ==
    /\ tasks[t].pc = "edit"
    /\ display' = IF outcome = "ok"
                  THEN Show(tasks[t].msg, tasks[t].new_code)
                  ELSE display
    /\ tasks' = [tasks EXCEPT ![t] =
            IF outcome = "NotFound" THEN DoneTask
            ELSE LoopTask]
    /\ ev' = IF tasks[t].cancel
             THEN Ev("edit", tasks[t].new_code, "cancelled")
             ELSE IF outcome = "ok" THEN NoEv
             ELSE Ev("edit", tasks[t].new_code, outcome)
    /\ UNCHANGED <<otherVars, sessVars, attendance_message_id,
                   rotation_task, opens, closes, db, clock, prev_code, acks,
                   finalized, reported, close_log>>

\* fetch_message/edit finished: "ok", "NotFound" (stop rotating) or "error"
\* (logged, keep rotating).  A cancelled task ends here; its edit request
\* may or may not have reached the message.  ev records a failed update
\* and an update cut short by the cancellation.
RotEdited(t, outcome) ==
    /\ tasks[t].pc = "edit"
    /\ display' = IF outcome = "ok"
                  THEN Show(tasks[t].msg, tasks[t].new_code)
                  ELSE display
    /\ tasks' = [tasks EXCEPT ![t] =
            IF tasks[t].cancel \/ outcome = "NotFound" THEN DoneTask
            ELSE LoopTask]
    /\ ev' = IF tasks[t].cancel
             THEN Ev("edit", tasks[t].new_code, "cancelled")
             ELSE IF outcome = "ok" THEN NoEv
             ELSE Ev("edit", tasks[t].new_code, outcome)
    /\ UNCHANGED <<otherVars, sessVars, attendance_message_id,
                   rotation_task, opens, closes, db, clock, prev_code, acks,
                   finalized, reported, close_log>>

\* ------------------------------------------------------------ specification
EditOutcomes == {"ok", "NotFound", "error"}

Next ==
    \/ \E u \in Users, text \in Texts, ch \in Channels : Here(u, text, ch)
    \/ \E i \in OpenIds, ch \in Channels : OpenBegin(i, ch)
    \/ \E i \in OpenIds, sent \in BOOLEAN : OpenSentAdmin(i, sent)
    \/ \E i \in OpenIds, sent \in BOOLEAN : OpenStart(i, sent)
    \/ \E i \in CloseIds, ch \in Channels : CloseBegin(i, ch)
    \/ \E i \in CloseIds : CloseAwaited(i)
    \/ \E i \in CloseIds, saved \in BOOLEAN : CloseSaved(i, saved)
    \/ \E i \in CloseIds, edited \in BOOLEAN : CloseEditedAdmin(i, edited)
    \/ \E i \in CloseIds : CloseReset(i)
    \/ \E t \in OpenIds : RotStart(t)
    \/ \E t \in OpenIds : RotTick(t)
    \/ \E t \in OpenIds, outcome \in EditOutcomes : RotEdited(t, outcome)

Spec == Init /\ [][Next]_vars

\* Everything of the bot but the call of generate_code and main().
cogVars == <<sessVars, attendance_message_id, rotation_task, tasks, opens,
             closes, display, display_on, db, clock, prev_code, acks,
             finalized, reported, close_log, today, admins, dbcall, ev>>

\* What a caller can give for a session and a date (None included) and for
\* a status.
SessionArgs == {NoId} \cup OpenIds

DateArgs == {NoDate} \cup Dates

Statuses == {"present", "excused"}

\* ------------------------------------------------- the record commands
\* What the record commands and the passing of time leave alone.
sessionVars == <<sessVars, attendance_message_id, rotation_task, tasks,
                 opens, closes, display, display_on, prev_code, acks,
                 finalized, reported, close_log, gen, cfg, dbcall>>

\* What the operator can type for a student (NoId: nobody is found), a
\* date and a session.
StudentArgs == Users \cup {NoId}

CommandDates == {NoDate, BadDate} \cup Dates

\* A command that passed its checks and suspends before it writes.
Pending(cmd, user_id, date_id, sid) ==
    [pc |-> "write", cmd |-> cmd, user_id |-> user_id, date_id |-> date_id,
     session_id |-> sid,
     existing |-> GetAttendanceRecord(db, user_id,
                      IF sid # NoId THEN NoDate ELSE date_id, sid) # {}]

\* export_csv: reads the table and writes a file.
ExportCsv(ch, sid) ==
    /\ ev' = IF ch # AdminChannel THEN WrongChannel("operator")
             ELSE Ev("export_csv", NoCode,
                     IF {r \in db : sid = NoId \/ r.session_id = sid} = {}
                     THEN "no_records" ELSE "exported")
    /\ UNCHANGED <<sessionVars, admins, db, clock, today>>

\* An excuse command that does not look at the channel.
ExcuseAnywhere(j, ch, student, date) ==
    /\ admins[j].pc = "idle"
    /\ IF j = 1 THEN TRUE ELSE admins[j - 1].pc # "idle"
    /\ IF student = NoId
       THEN /\ admins' = [admins EXCEPT ![j] = AdminDone]
            /\ ev' = Ev("excuse", NoCode, "student_not_found")
       ELSE LET d == IF date = NoDate THEN today ELSE date
            IN  IF d = BadDate
                THEN /\ admins' = [admins EXCEPT ![j] = AdminDone]
                     /\ ev' = Ev("excuse", NoCode, "invalid_date")
                ELSE /\ admins' = [admins EXCEPT ![j] =
                                      Pending("excuse", student, d, NoId)]
                     /\ ev' = NoEv
    /\ UNCHANGED <<sessionVars, db, clock, today>>

\* excuse: channel check, defer, resolve the student, default and check
\* the date, look for a record of that date; then suspend in the write.
Excuse(j, ch, student, date) ==
    /\ admins[j].pc = "idle"
    /\ IF j = 1 THEN TRUE ELSE admins[j - 1].pc # "idle"
    /\ IF ch # AdminChannel
       THEN /\ ev' = WrongChannel("operator")
            /\ UNCHANGED admins
       ELSE IF student = NoId
       THEN /\ admins' = [admins EXCEPT ![j] = AdminDone]
            /\ ev' = Ev("excuse", NoCode, "student_not_found")
       ELSE LET d == IF date = NoDate THEN today ELSE date
            IN  IF d = BadDate
                THEN /\ admins' = [admins EXCEPT ![j] = AdminDone]
                     /\ ev' = Ev("excuse", NoCode, "invalid_date")
                ELSE /\ admins' = [admins EXCEPT ![j] =
                                      Pending("excuse", student, d, NoId)]
                     /\ ev' = NoEv
    /\ UNCHANGED <<sessionVars, db, clock, today>>

\* excuse: update_attendance_status of the date when a record was found,
\* add_manual_attendance otherwise; ok is whether the call returned.
ExcuseWrite(j, ok) ==
    /\ admins[j].pc = "write"
    /\ admins[j].cmd = "excuse"
    /\ LET a == admins[j]
       IN  IF ~ok
           THEN /\ ev' = Ev("excuse", NoCode, "error")
                /\ UNCHANGED db
           ELSE IF a.existing
           THEN /\ db' = UpdateAttendanceStatus(db, a.user_id, "excused",
                                                a.date_id, NoId)
                /\ ev' = Ev("excuse", NoCode,
                            IF RowsFor(db, a.user_id, a.date_id, NoId) # {}
                            THEN "updated" ELSE "update_failed")
           ELSE /\ db' = AddManualAttendance(db, a.user_id,
                              UserName(a.user_id), a.date_id, NoId,
                              "excused", Now)
                /\ ev' = Ev("excuse", NoCode, "created")
    /\ admins' = [admins EXCEPT ![j] = AdminDone]
    /\ UNCHANGED <<sessionVars, clock, today>>

\* mark_present: as excuse, with an optional session that takes the place
\* of the date in the lookup.
MarkPresent(j, ch, student, date, sid) ==
    /\ admins[j].pc = "idle"
    /\ IF j = 1 THEN TRUE ELSE admins[j - 1].pc # "idle"
    /\ IF ch # AdminChannel
       THEN /\ ev' = WrongChannel("operator")
            /\ UNCHANGED admins
       ELSE IF student = NoId
       THEN /\ admins' = [admins EXCEPT ![j] = AdminDone]
            /\ ev' = Ev("mark_present", NoCode, "student_not_found")
       ELSE LET d == IF date = NoDate THEN today ELSE date
            IN  IF d = BadDate
                THEN /\ admins' = [admins EXCEPT ![j] = AdminDone]
                     /\ ev' = Ev("mark_present", NoCode, "invalid_date")
                ELSE /\ admins' = [admins EXCEPT ![j] =
                                      Pending("mark_present", student, d, sid)]
                     /\ ev' = NoEv
    /\ UNCHANGED <<sessionVars, db, clock, today>>

\* mark_present: update_attendance_status when a record was found,
\* add_manual_attendance otherwise.
MarkPresentWrite(j, ok) ==
    /\ admins[j].pc = "write"
    /\ admins[j].cmd = "mark_present"
    /\ LET a == admins[j]
           date_id == IF a.session_id # NoId THEN NoDate ELSE a.date_id
       IN  IF ~ok
           THEN /\ ev' = Ev("mark_present", NoCode, "error")
                /\ UNCHANGED db
           ELSE IF a.existing
           THEN /\ db' = UpdateAttendanceStatus(db, a.user_id, "present",
                                                date_id, a.session_id)
                /\ ev' = Ev("mark_present", NoCode,
                            IF RowsFor(db, a.user_id, date_id,
                                       a.session_id) # {}
                            THEN "updated" ELSE "update_failed")
           ELSE /\ db' = AddManualAttendance(db, a.user_id,
                              UserName(a.user_id), a.date_id, a.session_id,
                              "present", Now)
                /\ ev' = Ev("mark_present", NoCode, "created")
    /\ admins' = [admins EXCEPT ![j] = AdminDone]
    /\ UNCHANGED <<sessionVars, clock, today>>

\* remove_attendance (the command): channel check, a date or a session is
\* required, defer, resolve the student, check the date when one is given,
\* look for the record; then suspend in the removal.
RemoveAttendanceCommand(j, ch, student, date, sid) ==
    /\ admins[j].pc = "idle"
    /\ IF j = 1 THEN TRUE ELSE admins[j - 1].pc # "idle"
    /\ IF ch # AdminChannel
       THEN /\ ev' = WrongChannel("operator")
            /\ UNCHANGED admins
       ELSE IF date = NoDate /\ sid = NoId
       THEN /\ admins' = [admins EXCEPT ![j] = AdminDone]
            /\ ev' = Ev("remove_attendance", NoCode, "filter_required")
       ELSE IF student = NoId
       THEN /\ admins' = [admins EXCEPT ![j] = AdminDone]
            /\ ev' = Ev("remove_attendance", NoCode, "student_not_found")
       ELSE IF date = BadDate
       THEN /\ admins' = [admins EXCEPT ![j] = AdminDone]
            /\ ev' = Ev("remove_attendance", NoCode, "invalid_date")
       ELSE LET p == Pending("remove_attendance", student, date, sid)
            IN  IF ~p.existing
                THEN /\ admins' = [admins EXCEPT ![j] = AdminDone]
                     /\ ev' = Ev("remove_attendance", NoCode, "no_record")
                ELSE /\ admins' = [admins EXCEPT ![j] = p]
                     /\ ev' = NoEv
    /\ UNCHANGED <<sessionVars, db, clock, today>>

\* remove_attendance (the command): the removal and its reply.
RemoveAttendanceWrite(j, ok) ==
    /\ admins[j].pc = "write"
    /\ admins[j].cmd = "remove_attendance"
    /\ LET a == admins[j]
           date_id == IF a.session_id # NoId THEN NoDate ELSE a.date_id
       IN  IF ~ok
           THEN /\ ev' = Ev("remove_attendance", NoCode, "error")
                /\ UNCHANGED db
           ELSE /\ db' = RemoveAttendance(db, a.user_id, date_id,
                                          a.session_id)
                /\ ev' = Ev("remove_attendance", NoCode,
                            IF RowsFor(db, a.user_id, date_id,
                                       a.session_id) # {}
                            THEN "removed" ELSE "remove_failed")
    /\ admins' = [admins EXCEPT ![j] = AdminDone]
    /\ UNCHANGED <<sessionVars, clock, today>>

\* The date changes; the time of day starts again.
Midnight ==
    /\ today < MaxDays
    /\ today' = today + 1
    /\ clock' = 0
    /\ ev' = NoEv
    /\ UNCHANGED <<sessionVars, admins, db>>

\* The participant and the time of the submission of the first session.
FirstRecord ==
    <<[user_id |-> 1, username |-> UserName(1), timestamp |-> 1]>>

\* The bot after a first session that participant 1 attended and that was
\* closed and saved: open_attendance 1 and close_attendance 1 are over.
\* Of the other invocations one open_attendance and one close_attendance
\* are left: the earlier ones failed to post the message, or found no
\* session.
AfterFirstSession ==
    /\ is_active = FALSE
    /\ current_code = NoCode
    /\ session_id = NoId
    /\ submissions = <<>>
    /\ message_id = NoId
    /\ attendance_message_id = 1
    /\ rotation_task = 1
    /\ tasks = [t \in OpenIds |-> IF t = 1 THEN DoneTask ELSE NoTask]
    /\ opens = [i \in OpenIds |-> IF i < MaxOpens THEN OpenDone ELSE IdleOpen]
    /\ closes = [i \in CloseIds |->
                    IF i < MaxCloses THEN CloseDone ELSE IdleClose]
    /\ db = SaveAttendanceRecords({}, FirstRecord, 1)
    /\ clock = 1
    /\ prev_code = NoCode
    /\ acks = {[user_id |-> 1, session_id |-> 1, timestamp |-> 1]}
    /\ finalized = [s \in {1} |-> FirstRecord]
    /\ reported = {}
    /\ close_log = [i \in CloseIds |->
          IF i = 1
          THEN <<Step("cancel", 1, <<>>), Step("awaited", 1, <<>>),
                 Step("end", 1, FirstRecord), Step("save", 1, FirstRecord),
                 Step("saved", 1, <<>>), Step("reset", NoId, <<>>)>>
          ELSE IF i < MaxCloses
          THEN <<Step("end_refused", NoId, <<>>)>>
          ELSE <<>>]
    /\ today = 0
    /\ admins = [j \in AdminIds |-> IdleAdmin]
    /\ dbcall = NoCall
    /\ gen = NoGen
    /\ cfg = NoCfg
    /\ ev = NoEv

\* The bot while the first session is being saved: participant 1 attended
\* it, close_attendance 1 cancelled and awaited the rotation task, ended the
\* session and is suspended in save_attendance_records.
DuringFirstSave ==
    /\ is_active = FALSE
    /\ current_code \in Codes(CODE_LENGTH)
    /\ session_id = 1
    /\ submissions = <<>>
    /\ message_id = 1
    /\ attendance_message_id = 1
    /\ rotation_task = 1
    /\ tasks = [t \in OpenIds |-> IF t = 1 THEN DoneTask ELSE NoTask]
    /\ opens = [i \in OpenIds |-> IF i < MaxOpens THEN OpenDone ELSE IdleOpen]
    /\ closes = [i \in CloseIds |->
                    IF i = 1
                    THEN [IdleClose EXCEPT !.pc = "save",
                                           !.records = FirstRecord,
                                           !.session_id = 1]
                    ELSE IF i < MaxCloses THEN CloseDone ELSE IdleClose]
    /\ db = {}
    /\ clock = 1
    /\ prev_code = NoCode
    /\ acks = {[user_id |-> 1, session_id |-> 1, timestamp |-> 1]}
    /\ finalized = [s \in {1} |-> FirstRecord]
    /\ reported = {}
    /\ close_log = [i \in CloseIds |->
          IF i = 1
          THEN <<Step("cancel", 1, <<>>), Step("awaited", 1, <<>>),
                 Step("end", 1, FirstRecord), Step("save", 1, FirstRecord)>>
          ELSE IF i < MaxCloses
          THEN <<Step("end_refused", NoId, <<>>)>>
          ELSE <<>>]
    /\ today = 0
    /\ admins = [j \in AdminIds |-> IdleAdmin]
    /\ dbcall = NoCall
    /\ gen = NoGen
    /\ cfg = NoCfg
    /\ ev = Ev("close_end", NoCode, "ended")

\* The session commands next to the excuse command, from the save of the
\* first session on.
InitExcuse ==
    /\ DuringFirstSave
    /\ display_on = FALSE
    /\ display = [m \in OpenIds |-> NoCode]

NextExcuse ==
    \/ Next
    \/ \E j \in AdminIds, ch \in Channels, student \in StudentArgs,
          date \in CommandDates : Excuse(j, ch, student, date)
    \/ \E j \in AdminIds, ok \in BOOLEAN : ExcuseWrite(j, ok)

SpecExcuse == InitExcuse /\ [][NextExcuse]_vars

\* The session, the task and the messages of a session that was opened
\* before the invocations followed here: its identifier precedes theirs.
EarlierSession == NoId - 1

\* The bot while an earlier session that nobody attended is being closed:
\* its close_attendance (invocation 1) cancelled and awaited the rotation
\* task, ended the session, got 0 from save_attendance_records and is
\* suspended fetching the admin message; its open_attendance is over.
DuringEarlierClose ==
    /\ is_active = FALSE
    /\ current_code \in Codes(CODE_LENGTH)
    /\ session_id = EarlierSession
    /\ submissions = <<>>
    /\ message_id = EarlierSession
    /\ attendance_message_id = EarlierSession
    /\ rotation_task = EarlierSession
    /\ tasks = [t \in OpenIds \cup {EarlierSession} |->
                   IF t = EarlierSession THEN DoneTask ELSE NoTask]
    /\ opens = [i \in OpenIds |-> IdleOpen]
    /\ closes = [i \in CloseIds |->
                    IF i = 1
                    THEN [IdleClose EXCEPT !.pc = "edit_admin",
                                           !.session_id = EarlierSession,
                                           !.msg = EarlierSession]
                    ELSE IdleClose]
    /\ display = [m \in OpenIds \cup {EarlierSession} |-> NoCode]
    /\ db = {}
    /\ clock = 0
    /\ prev_code = NoCode
    /\ acks = {}
    /\ finalized = [s \in {EarlierSession} |-> <<>>]
    /\ reported = {}
    /\ close_log = [i \in CloseIds |->
          IF i = 1
          THEN <<Step("cancel", EarlierSession, <<>>),
                 Step("awaited", EarlierSession, <<>>)>>
               \o EndSteps(EarlierSession, <<>>)
          ELSE <<>>]
    /\ today = 0
    /\ admins = [j \in AdminIds |-> IdleAdmin]
    /\ dbcall = NoCall
    /\ gen = NoGen
    /\ cfg = NoCfg
    /\ ev = Ev("close_end", NoCode, "ended")

\* The session commands from the close of an earlier session on.
InitRotation == DuringEarlierClose /\ display_on = FALSE

SpecRotation == InitRotation /\ [][Next]_vars

\* The session commands with the messages followed, from the save of the
\* first session on: the message of the first session shows the code the
\* session was opened with (no tick has happened).
InitDisplay ==
    /\ DuringFirstSave
    /\ display_on = TRUE
    /\ display = [m \in OpenIds |-> IF m = 1 THEN current_code ELSE NoCode]

SpecDisplay == InitDisplay /\ [][Next]_vars

\* The specifications of the record commands follow the messages: the
\* message of the first session shows that it is closed.
InitRecords ==
    /\ AfterFirstSession
    /\ display_on = TRUE
    /\ display = [m \in OpenIds |-> IF m = 1 THEN ClosedEmbed ELSE NoCode]

NextRecords ==
    \/ Next
    \/ \E ch \in Channels, sid \in SessionArgs : ExportCsv(ch, sid)
    \/ \E j \in AdminIds, ch \in Channels, student \in StudentArgs,
          date \in CommandDates : Excuse(j, ch, student, date)
    \/ \E j \in AdminIds, ok \in BOOLEAN : ExcuseWrite(j, ok)
    \/ \E j \in AdminIds, ch \in Channels, student \in StudentArgs,
          date \in CommandDates, sid \in SessionArgs :
          MarkPresent(j, ch, student, date, sid)
    \/ \E j \in AdminIds, ok \in BOOLEAN : MarkPresentWrite(j, ok)
    \/ \E j \in AdminIds, ch \in Channels, student \in StudentArgs,
          date \in CommandDates, sid \in SessionArgs :
          RemoveAttendanceCommand(j, ch, student, date, sid)
    \/ \E j \in AdminIds, ok \in BOOLEAN : RemoveAttendanceWrite(j, ok)

SpecRecords == InitRecords /\ [][NextRecords]_vars

\* The session commands over more than one day.
NextDays == Next \/ Midnight

SpecDays == InitRecords /\ [][NextDays]_vars

\* ------------------------------------------- AttendanceDatabase on its own
\* Everything but the attendance table and the call made on it.
nonDbVars == <<sessVars, attendance_message_id, rotation_task, tasks, opens,
               closes, display, display_on, clock, prev_code, acks,
               finalized, reported, close_log, today, admins, gen, cfg, ev>>

\* The records save_attendance_records can be given: lists of at most
\* MaxRecords entries, each of a participant and a time of one of the days
\* (a FinalizedRecord has every participant once, other lists need not).
RecordEntries ==
    {[user_id |-> u, username |-> UserName(u),
      timestamp |-> d * TicksPerDay + 1] : u \in Users, d \in Dates}

RecordLists == UNION {[1..n -> RecordEntries] : n \in 0..MaxRecords}

\* The call made: its arguments (those it has), what it returned and, for
\* a call that writes, how many rows of the pairs it writes were there.
Called(fn, records, user_id, date_id, sid, status, returned, replaced) ==
    [fn |-> fn, records |-> records, user_id |-> user_id,
     date_id |-> date_id, session_id |-> sid, status |-> status,
     returned |-> returned, replaced |-> replaced, n |-> dbcall.n + 1]

DbSave(records, sid) ==
    /\ dbcall.n < MaxDbCalls
    /\ db' = SaveAttendanceRecords(db, records, sid)
    /\ dbcall' = Called("save_attendance_records", records, NoId, NoDate,
                        sid, "none", SavedCount(records),
                        Cardinality({r \in db :
                            /\ r.session_id = sid
                            /\ \E k \in 1..Len(records) :
                                  records[k].user_id = r.user_id}))
    /\ UNCHANGED nonDbVars

DbAddManual(user_id, date_id, sid, status) ==
    /\ dbcall.n < MaxDbCalls
    /\ db' = AddManualAttendance(db, user_id, UserName(user_id), date_id,
                                 sid, status, Now)
    /\ dbcall' = Called("add_manual_attendance", <<>>, user_id, date_id,
                        sid, status, ManualSessionFor(db, date_id, sid),
                        Cardinality({r \in db :
                            /\ r.user_id = user_id
                            /\ r.session_id =
                                  ManualSessionFor(db, date_id, sid)}))
    /\ UNCHANGED nonDbVars

DbRemove(user_id, date_id, sid) ==
    /\ dbcall.n < MaxDbCalls
    /\ db' = RemoveAttendance(db, user_id, date_id, sid)
    /\ dbcall' = Called("remove_attendance", <<>>, user_id, date_id, sid,
                        "none",
                        Cardinality(RowsFor(db, user_id, date_id, sid)), 0)
    /\ UNCHANGED nonDbVars

DbUpdate(user_id, status, date_id, sid) ==
    /\ dbcall.n < MaxDbCalls
    /\ db' = UpdateAttendanceStatus(db, user_id, status, date_id, sid)
    /\ dbcall' = Called("update_attendance_status", <<>>, user_id, date_id,
                        sid, status,
                        Cardinality(RowsFor(db, user_id, date_id, sid)), 0)
    /\ UNCHANGED nonDbVars

InitDb == InitCog /\ display_on = FALSE /\ gen = NoGen /\ cfg = NoCfg

NextDb ==
    \/ \E records \in RecordLists, sid \in OpenIds : DbSave(records, sid)
    \/ \E u \in Users, d \in Dates, sid \in SessionArgs, st \in Statuses :
          DbAddManual(u, d, sid, st)
    \/ \E u \in Users, d \in DateArgs, sid \in SessionArgs :
          DbRemove(u, d, sid)
    \/ \E u \in Users, d \in DateArgs, sid \in SessionArgs,
          st \in Statuses : DbUpdate(u, st, d, sid)

SpecDb == InitDb /\ [][NextDb]_vars

\* The functions of AttendanceDatabase that write or remove single rows,
\* called on their own next to the remove_attendance command of the
\* operator, on the table a first session has left.
NextRemoval ==
    \/ \E u \in Users, d \in Dates, sid \in SessionArgs, st \in Statuses :
          DbAddManual(u, d, sid, st)
    \/ \E u \in Users, d \in DateArgs, sid \in SessionArgs :
          DbRemove(u, d, sid)
    \/ \E u \in Users, d \in DateArgs, sid \in SessionArgs,
          st \in Statuses : DbUpdate(u, st, d, sid)
    \/ \E j \in AdminIds, ch \in Channels, student \in StudentArgs,
          date \in CommandDates, sid \in SessionArgs :
          RemoveAttendanceCommand(j, ch, student, date, sid)
    \/ \E j \in AdminIds, ok \in BOOLEAN : RemoveAttendanceWrite(j, ok)

SpecRemoval == InitRecords /\ [][NextRemoval]_vars

\* ------------------------------------------------------- generate_code
\* previous_code = None: equal to no code.
NoPrevious == <<"None">>

GenLengths == 0..MaxGenLength

PreviousCodes == {NoPrevious} \cup UNION {Codes(l) : l \in GenLengths}

\* generate_code(length, previous_code) has been called.
GenInputs ==
    [pc : {"loop"}, length : GenLengths, previous_code : PreviousCodes,
     code : {NoCode}, draws : {0}]

\* A loop that returns the code that equals previous_code.
GenIterateInverted(code) ==
    /\ gen.pc = "loop"
    /\ code \in Codes(gen.length)
    /\ gen' = [gen EXCEPT
                  !.code = code,
                  !.draws = IF @ < MaxDraws THEN @ + 1 ELSE @,
                  !.pc = IF code = gen.previous_code
                         THEN "returned" ELSE "loop"]
    /\ UNCHANGED <<cogVars, cfg>>

\* One pass of the loop: draw length characters, return the code unless it
\* equals previous_code. draws counts the passes up to MaxDraws.
GenIterate(code) ==
    /\ gen.pc = "loop"
    /\ code \in Codes(gen.length)
    /\ gen' = [gen EXCEPT
                  !.code = code,
                  !.draws = IF @ < MaxDraws THEN @ + 1 ELSE @,
                  !.pc = IF code # gen.previous_code
                         THEN "returned" ELSE "loop"]
    /\ UNCHANGED <<cogVars, cfg>>

InitGen == InitCog /\ display_on = FALSE /\ cfg = NoCfg /\ gen \in GenInputs

NextGen == \E code \in UNION {Codes(l) : l \in GenLengths} : GenIterate(code)

\* secrets.choice can produce every character at every draw: each code of
\* the length asked for is drawn sooner or later.
SpecGen ==
    /\ InitGen
    /\ [][NextGen]_vars
    /\ \A code \in UNION {Codes(l) : l \in GenLengths} :
          WF_vars(GenIterate(code))

\* ------------------------------------------------------ Config and main
MinInterval == 5
MinCodeLength == 3

ChannelIdValues == -1..1

\* The values the class attributes of Config can have after import, and
\* main() about to run.
ConfigInputs ==
    [pc : {"main"}, token : {"", "token"},
     admin_id : ChannelIdValues, attendance_id : ChannelIdValues,
     interval : {MinInterval - 1, MinInterval},
     length : {MinCodeLength - 1, MinCodeLength},
     error : {"none"}]

\* A validate that does not look at CODE_LENGTH.
ValidateSkipsLength(c) ==
    IF c.token = "" \/ c.admin_id = 0 \/ c.attendance_id = 0
    THEN "missing"
    ELSE IF c.admin_id <= 0 THEN "admin_id"
    ELSE IF c.attendance_id <= 0 THEN "attendance_id"
    ELSE IF c.interval < MinInterval THEN "interval"
    ELSE "ok"

\* Config.validate: the ValueError it raises, "ok" when it returns True.
Validate(c) ==
    IF c.token = "" \/ c.admin_id = 0 \/ c.attendance_id = 0
    THEN "missing"
    ELSE IF c.admin_id <= 0 THEN "admin_id"
    ELSE IF c.attendance_id <= 0 THEN "attendance_id"
    ELSE IF c.interval < MinInterval THEN "interval"
    ELSE IF c.length < MinCodeLength THEN "length"
    ELSE "ok"

\* main(): config.validate(); on ValueError print and return.
MainValidate ==
    /\ cfg.pc = "main"
    /\ LET r == Validate(cfg)
       IN  cfg' = IF r = "ok"
                  THEN [cfg EXCEPT !.pc = "validated"]
                  ELSE [cfg EXCEPT !.pc = "returned", !.error = r]
    /\ UNCHANGED <<cogVars, gen>>

\* main(): bot = AttendanceBot()
MainCreateBot ==
    /\ cfg.pc = "validated"
    /\ cfg' = [cfg EXCEPT !.pc = "created"]
    /\ UNCHANGED <<cogVars, gen>>

\* main(): await bot.start(config.DISCORD_BOT_TOKEN)
MainStart ==
    /\ cfg.pc = "created"
    /\ cfg' = [cfg EXCEPT !.pc = "started"]
    /\ UNCHANGED <<cogVars, gen>>

InitConfig ==
    InitCog /\ display_on = FALSE /\ gen = NoGen /\ cfg \in ConfigInputs

NextConfig == MainValidate \/ MainCreateBot \/ MainStart

SpecConfig == InitConfig /\ [][NextConfig]_vars

\* ----------------------------------------------------------------- claims
\* The participants acknowledged as recorded in session s.
AckedUsers(s) == {a.user_id : a \in {b \in acks : b.session_id = s}}

\* The participants that have an entry in a drained sequence.
RecordUsers(records) == {records[k].user_id : k \in 1..Len(records)}

\* Session s is over: it is not the Active session and no close_attendance
\* invocation still has its records to save.
SessionOver(s) ==
    /\ ~(is_active /\ session_id = s)
    /\ \A i \in CloseIds :
          ~(closes[i].pc = "save" /\ closes[i].session_id = s)

\* C1: a submission that passes the channel check adds or replaces a ledger
\* entry exactly when the session is Active and the submitted code equals
\* the current code; otherwise the reply is "no active session" (Inactive)
\* or "invalid code" (mismatch) and the ledger is unchanged.
C1_SubmitAcceptedIffActiveAndCurrent ==
    [][ev'.kind = "here" =>
        /\ (ev'.result = "recorded") <=> (is_active /\ ev'.code = current_code)
        /\ (ev'.result = "recorded") <=> (submissions' # submissions)
        /\ (ev'.result = "no_session") <=> ~is_active
        /\ (ev'.result = "invalid") <=> (is_active /\ ev'.code # current_code)
        /\ ev'.result \in {"recorded", "no_session", "invalid"}]_vars

\* C1 witness: an accepted submission replaced the entry of an earlier
\* accepted submission of the same participant in the same session.
C1_Witness ==
    /\ ev.kind = "here" /\ ev.result = "recorded"
    /\ clock = 2
    /\ \E u \in DOMAIN submissions : submissions[u].timestamp = 2
    /\ \A a \in acks : a.timestamp # 1

\* C2: once a session is over, every participant acknowledged as recorded
\* in it has exactly one row for that session in the database, or the
\* failed save of that session was reported to the operator.
C2_NoAcceptedSubmissionDropped ==
    \A a \in acks :
        SessionOver(a.session_id) =>
            \/ a.session_id \in reported
            \/ Cardinality({r \in db : /\ r.user_id = a.user_id
                                       /\ r.session_id = a.session_id}) = 1

\* C3: the live ledger and every drained sequence hold, for each
\* participant, exactly the entry of the last accepted submission.
C3_LastWriteWins ==
    /\ is_active =>
          \A u \in DOMAIN submissions :
              \E a \in acks : /\ a.user_id = u
                              /\ a.session_id = session_id
                              /\ a.timestamp = submissions[u].timestamp
    /\ \A s \in DOMAIN finalized :
          \A a \in {b \in acks : b.session_id = s} :
              LET ks == {k \in 1..Len(finalized[s]) :
                            finalized[s][k].user_id = a.user_id}
              IN  /\ Cardinality(ks) = 1
                  /\ \A k \in ks : finalized[s][k].timestamp = a.timestamp

\* C3 witness: a drained sequence holds the second accepted submission of a
\* participant who submitted twice in that session.
C3_Witness ==
    \E s \in DOMAIN finalized :
        /\ Len(finalized[s]) = 1
        /\ finalized[s][1].timestamp = 2
        /\ \A a \in acks : a.timestamp # 1

\* C4: start_session while Active fails with SessionAlreadyActive and leaves
\* the current code, the session identifier, the ledger and the rotation
\* task as they were.
C4_StartWhileActiveFails ==
    [][(ev'.kind = "open_start" /\ is_active) =>
        /\ ev'.result = "SessionAlreadyActive"
        /\ UNCHANGED <<is_active, current_code, session_id, submissions,
                       message_id, rotation_task, tasks>>]_vars

\* C4 witness: an open_attendance was refused while the Active session had
\* a submission and a rotation task that is not done.
C4_Witness ==
    /\ ev.kind = "open_start" /\ ev.result = "SessionAlreadyActive"
    /\ is_active
    /\ SubmissionCount(submissions) >= 1
    /\ tasks[rotation_task].pc \notin {"none", "done"}

\* C5: end_session while Inactive fails with NoActiveSession, changes
\* nothing of the coordinator, and that close_attendance saves nothing.
C5_EndWhileInactiveFails ==
    [][(ev'.kind = "close_end" /\ ~is_active) =>
        /\ ev'.result = "NoActiveSession"
        /\ UNCHANGED <<sessVars, db, finalized, reported>>
        /\ \A i \in CloseIds :
              closes'[i] # closes[i] => closes'[i] = CloseDone]_vars

\* C5 witness: a close_attendance was refused on an Inactive coordinator
\* that still holds the message of an earlier session.
C5_Witness ==
    /\ ev.kind = "close_end" /\ ev.result = "NoActiveSession"
    /\ message_id # NoId

\* C6: every drained sequence has as many entries as there are distinct
\* participants accepted in that session, and right after end_session the
\* coordinator is Inactive with a submission count of 0.
C6_FinalizedCountAndStatus ==
    /\ \A s \in DOMAIN finalized :
          Len(finalized[s]) = Cardinality(AckedUsers(s))
    /\ (ev.kind = "close_end" /\ ev.result = "ended") =>
          (~is_active /\ SubmissionCount(submissions) = 0)

\* C6 witness: end_session has just returned a record of one participant
\* who was accepted twice.
C6_Witness ==
    /\ ev.kind = "close_end" /\ ev.result = "ended"
    /\ clock = 2
    /\ \E s \in DOMAIN finalized :
          Len(finalized[s]) = 1 /\ finalized[s][1].timestamp = 2

\* C7: every submission acknowledged as recorded is in the ledger of the
\* Active session it was made in or in the sequence end_session returned
\* for that session.
C7_NoAcknowledgedSubmissionMissing ==
    \A a \in acks :
        \/ /\ is_active
           /\ session_id = a.session_id
           /\ a.user_id \in DOMAIN submissions
        \/ /\ a.session_id \in DOMAIN finalized
           /\ a.user_id \in RecordUsers(finalized[a.session_id])

\* C8: a submission of the current code to the Active session succeeds;
\* the ledger holds one entry for each accepted participant, and a drained
\* sequence holds each of them once and nobody else.
C8_ConcurrentSubmissionsAllCounted ==
    /\ (ev.kind = "here" /\ is_active /\ ev.code = current_code) =>
          ev.result = "recorded"
    /\ is_active => DOMAIN submissions = AckedUsers(session_id)
    /\ \A s \in DOMAIN finalized :
          /\ RecordUsers(finalized[s]) = AckedUsers(s)
          /\ Cardinality(RecordUsers(finalized[s])) = Len(finalized[s])

\* C8 witness: a drained sequence holds every participant of the model.
C8_Witness ==
    \E s \in DOMAIN finalized :
        /\ RecordUsers(finalized[s]) = Users
        /\ Len(finalized[s]) = MaxUsers

\* C9: end_session succeeds at most once per session, empties the ledger
\* in the step that produces the record, a record once produced never
\* changes, and no submission is accepted into a session that has one.
C9_CloseIsTerminal ==
    [][/\ (ev'.kind = "close_end" /\ ev'.result = "ended") =>
            /\ session_id \notin DOMAIN finalized
            /\ session_id \in DOMAIN finalized'
            /\ finalized'[session_id] = Drain(submissions)
            /\ submissions' = <<>>
            /\ ~is_active'
       /\ \A s \in DOMAIN finalized :
            s \in DOMAIN finalized' /\ finalized'[s] = finalized[s]
       /\ finalized' # finalized =>
            (ev'.kind = "close_end" /\ ev'.result = "ended")
       /\ \A a \in acks' \ acks : a.session_id \notin DOMAIN finalized']_vars

\* C9 witness: a second close_attendance was refused after the first one
\* drained a session with a submission.
C9_Witness ==
    /\ ev.kind = "close_end" /\ ev.result = "NoActiveSession"
    /\ \E s \in DOMAIN finalized : Len(finalized[s]) >= 1

\* C10: after a rotation of an Active session a submission of the previous
\* code is refused as invalid and a submission of the new code is recorded.
C10_NoBufferingOfExpiredTokens ==
    [][(ev'.kind = "here" /\ is_active /\ prev_code # NoCode) =>
        /\ ev'.code = prev_code => ev'.result = "invalid"
        /\ ev'.code = current_code => ev'.result = "recorded"]_vars

\* C10 witness: a submission of the code that was current before the last
\* rotation was refused.
C10_Witness ==
    /\ ev.kind = "here" /\ ev.result = "invalid"
    /\ is_active
    /\ prev_code # NoCode
    /\ ev.code = prev_code

\* text equals the code t up to letter case and up to spaces before and
\* after it.
EqualUpToCaseAndSpace(text, t) ==
    \E lead \in 0..Len(text), trail \in 0..Len(text) :
        /\ Len(text) = lead + Len(t) + trail
        /\ \A k \in 1..lead : text[k] = " "
        /\ \A k \in 1..trail : text[Len(text) + 1 - k] = " "
        /\ \A k \in 1..Len(t) :
              text[lead + k] \in {t[k], LowerChar(t[k]), UpperChar(t[k])}

\* C11: a here whose text equals the current code of the Active session up
\* to letter case and surrounding spaces is recorded, and when the ledger
\* was empty the submission count is 1 afterwards.
C11_CaseInsensitiveTrimmedMatch ==
    [][(/\ ev'.kind = "here"
        /\ is_active
        /\ EqualUpToCaseAndSpace(ev'.text, current_code)) =>
          /\ ev'.result = "recorded"
          /\ submissions = <<>> => SubmissionCount(submissions') = 1]_vars

\* C11 witness: the first submission of a session, typed in lower case, was
\* recorded and the submission count is 1.
C11_Witness ==
    /\ ev.kind = "here" /\ ev.result = "recorded"
    /\ is_active
    /\ ev.text = [k \in 1..Len(current_code) |-> LowerChar(current_code[k])]
    /\ ev.text # current_code
    /\ clock = 1
    /\ SubmissionCount(submissions) = 1

\* C12: generate_code never returns the code it is told to avoid, and
\* after a rotation of the Active session the current code is a code of
\* the alphabet different from the code that was current before it.
C12_NoRepeatOnRotation ==
    /\ \A p \in Codes(CODE_LENGTH) \cup {NoCode} :
          p \notin GenerateCode(CODE_LENGTH, p)
    /\ (is_active /\ prev_code # NoCode) =>
          /\ current_code \in Codes(CODE_LENGTH)
          /\ current_code # prev_code

\* C12 witness: the Active session has been rotated.
C12_Witness ==
    /\ is_active
    /\ prev_code \in Codes(CODE_LENGTH)
    /\ current_code \in Codes(CODE_LENGTH) \ {prev_code}

\* C13: a step of a rotation task taken while the coordinator is Inactive
\* leaves the coordinator Inactive and changes neither its current code
\* nor its ledger nor its session and message identifiers.
C13_TickOnInactiveIsNoOp ==
    [][(/\ ~is_active
        /\ \E t \in OpenIds : /\ tasks[t].pc \in {"new", "sleep", "edit"}
                              /\ tasks'[t].pc # tasks[t].pc) =>
          UNCHANGED <<is_active, current_code, session_id, submissions,
                      message_id>>]_vars

\* C13 witness: a rotation task that nobody cancelled woke up after its
\* session was ended by end_session and found the coordinator Inactive.
C13_Witness ==
    /\ ev.kind = "tick" /\ ev.result = "inactive"
    /\ ~is_active
    /\ session_id \in DOMAIN finalized
    /\ tasks[session_id].pc = "done"

\* C14: the ledger of the Active session and every drained sequence hold
\* at most one entry for each participant.
C14_OneEntryPerParticipant ==
    /\ \A j \in DOMAIN submissions, k \in DOMAIN submissions :
          submissions[j].user_id = submissions[k].user_id => j = k
    /\ \A s \in DOMAIN finalized :
          \A j \in 1..Len(finalized[s]), k \in 1..Len(finalized[s]) :
              finalized[s][j].user_id = finalized[s][k].user_id => j = k

\* C14 witness: the Active session accepted the same participant twice and
\* its ledger has one entry.
C14_Witness ==
    /\ is_active
    /\ clock = 2
    /\ \A a \in acks : a.timestamp = 2 /\ a.session_id = session_id
    /\ SubmissionCount(submissions) = 1

\* The positions of the steps called name in the log of close i.
StepsOf(i, name) ==
    {k \in 1..Len(close_log[i]) : close_log[i][k].step = name}

\* The names of the steps of close i, in order.
StepNames(i) == [k \in 1..Len(close_log[i]) |-> close_log[i][k].step]

\* The database rows of the records of session sid.
RowsOf(records, sid) ==
    {[user_id |-> records[k].user_id, username |-> records[k].username,
      timestamp |-> records[k].timestamp,
      date_id |-> records[k].timestamp \div TicksPerDay,
      session_id |-> sid, status |-> "present"] :
        k \in 1..Len(records)}

\* C15: a close_attendance calls save_attendance_records once for each
\* end_session that succeeded, right after it and with the records and the
\* session identifier end_session returned; a close whose end_session was
\* refused never calls it; a save that returned left that session's
\* records in the database.
C15_SaveOncePerSuccessfulEnd ==
    \A i \in CloseIds :
        /\ Cardinality(StepsOf(i, "end")) <= 1
        /\ Cardinality(StepsOf(i, "save")) = Cardinality(StepsOf(i, "end"))
        /\ \A k \in StepsOf(i, "save") :
              /\ k - 1 \in StepsOf(i, "end")
              /\ close_log[i][k].id = close_log[i][k - 1].id
              /\ close_log[i][k].arg = close_log[i][k - 1].arg
              /\ close_log[i][k].id \in DOMAIN finalized
              /\ close_log[i][k].arg = finalized[close_log[i][k].id]
        /\ StepsOf(i, "end_refused") # {} => StepsOf(i, "save") = {}
        /\ \A k \in StepsOf(i, "saved") :
              LET sid == close_log[i][k].id
              IN  {r \in db : r.session_id = sid} =
                      RowsOf(finalized[sid], sid)

\* C15 witness: a close_attendance has saved the records of a session with
\* a submission and has finished.
C15_Witness ==
    \E i \in CloseIds :
        /\ closes[i].pc = "done"
        /\ \E k \in StepsOf(i, "save") : close_log[i][k].arg # <<>>
        /\ StepsOf(i, "saved") # {}
        /\ db # {}

\* C16: when save_attendance_records failed, the failure was reported, the
\* handler ended there (no second save, no reset), the session it ended
\* is not Active and has no rows in the database.
C16_FailedSaveReportedNotRetried ==
    \A i \in CloseIds :
        \A k \in StepsOf(i, "save_failed") :
            LET sid == close_log[i][k].id
            IN  /\ k = Len(close_log[i])
                /\ Cardinality(StepsOf(i, "save")) = 1
                /\ closes[i] = CloseDone
                /\ sid \in reported
                /\ ~(is_active /\ session_id = sid)
                /\ \A r \in db : r.session_id # sid

\* C16 witness: the save of a session with a submission failed and a later
\* session is Active.
C16_Witness ==
    \E i \in CloseIds :
        /\ StepsOf(i, "save_failed") # {}
        /\ \E k \in StepsOf(i, "save") : close_log[i][k].arg # <<>>
        /\ is_active

\* C17: while the session is Active its rotation task goes on ticking,
\* also after a tick whose display update failed: the task is waiting for
\* its next interval or updating the display, unless a close_attendance
\* has cancelled it and is about to end the session.
C17_RotationContinuesWhileActive ==
    is_active =>
        \/ /\ tasks[rotation_task].pc \in {"new", "sleep", "edit"}
           /\ ~tasks[rotation_task].cancel
        \/ \E i \in CloseIds : closes[i].pc = "await_task"

\* C18: the step in which a display update of the rotation task fails
\* changes nothing of the coordinator: when it was Active with the newly
\* published code it still is, and the ledger is the same.
C18_FailedDisplayUpdateKeepsSession ==
    [][(ev'.kind = "edit" /\ ev'.result \in {"error", "NotFound"}) =>
          /\ UNCHANGED <<is_active, current_code, session_id, submissions,
                         message_id>>
          /\ (is_active /\ current_code = ev'.code) =>
                (is_active' /\ current_code' = ev'.code)]_vars

\* C18 witness: a display update failed; the session is Active with the
\* code of that tick and has a submission.
C18_Witness ==
    /\ ev.kind = "edit" /\ ev.result = "error"
    /\ is_active
    /\ current_code = ev.code
    /\ prev_code # NoCode
    /\ SubmissionCount(submissions) >= 1

\* C19: a cancelled rotation task only ends, and without touching the
\* coordinator, whether the cancellation found it sleeping or updating the
\* display; a task that has ended never moves again; and the task a
\* close_attendance has finished awaiting has ended.
C19_CancelledTaskStops ==
    [][\A t \in OpenIds :
          /\ (tasks[t].cancel /\ tasks'[t] # tasks[t]) =>
                /\ tasks'[t].pc = "done"
                /\ UNCHANGED <<is_active, current_code, session_id,
                               submissions, message_id>>
          /\ tasks[t].pc = "done" => tasks'[t] = tasks[t]
          /\ \A i \in CloseIds :
                \A k \in 1..Len(close_log'[i]) :
                    (close_log'[i][k].step = "awaited"
                        /\ close_log'[i][k].id = t) =>
                    tasks'[t].pc = "done"]_vars

\* C19 witness: the cancellation reached the task during the display
\* update of a tick; the task has ended, the code is the one that tick
\* published, and the close_attendance that cancelled it is about to go on.
C19_Witness ==
    /\ ev.kind = "edit" /\ ev.result = "cancelled"
    /\ current_code = ev.code
    /\ \E i \in CloseIds :
          /\ closes[i].pc = "await_task"
          /\ StepNames(i) = <<"cancel">>
          /\ tasks[closes[i].task].pc = "done"

\* The steps of a close_attendance that succeeds, in order.
CloseOrder == <<"cancel", "awaited", "end", "save", "saved", "reset">>

\* C20: the steps of every close_attendance are a beginning of: cancel the
\* rotation task, its await returns, end_session, save called, save
\* returned, reset; or end there with a refused end_session or a failed
\* save.  The awaited task is the cancelled one and has ended before
\* end_session, the saved session is the ended one, and a close that
\* reset the coordinator has done all the steps.
C20_CloseStepsInOrder ==
    \A i \in CloseIds :
        LET names == StepNames(i)
            n == Len(names)
        IN  /\ \/ /\ n <= Len(CloseOrder)
                  /\ \A k \in 1..n : names[k] = CloseOrder[k]
               \/ names = <<"end_refused">>
               \/ names = <<"cancel", "awaited", "end_refused">>
               \/ names = <<"cancel", "awaited", "end", "save", "save_failed">>
            /\ \A k \in StepsOf(i, "awaited") :
                  /\ close_log[i][k].id = close_log[i][1].id
                  /\ tasks[close_log[i][k].id].pc = "done"
            /\ \A k \in StepsOf(i, "saved") \cup StepsOf(i, "save_failed") :
                  close_log[i][k].id = close_log[i][3].id
            /\ StepsOf(i, "reset") # {} => names = CloseOrder

\* C20 witness: a close_attendance that saved a submission has done all
\* its steps and the rows are in the database.
C20_Witness ==
    \E i \in CloseIds :
        /\ StepNames(i) = CloseOrder
        /\ close_log[i][3].arg # <<>>
        /\ closes[i].pc = "done"
        /\ \A r \in RowsOf(close_log[i][3].arg, close_log[i][3].id) : r \in db

\* C21: display and persistence I/O of an operation comes after its
\* transition of the coordinator: an open_attendance that has posted its
\* code message has made its start_session call, a rotation task that is
\* updating the display has published its code, and a close_attendance
\* that is saving or editing messages has called end_session.
C21_TransitionBeforeIO ==
    /\ \A i \in OpenIds :
          opens[i].pc = "send_att" =>
              \/ is_active /\ session_id = i
              \/ i \in DOMAIN finalized
    /\ \A t \in OpenIds :
          (tasks[t].pc = "edit" /\ is_active /\ ~tasks[t].cancel) =>
              current_code = tasks[t].new_code
    /\ \A i \in CloseIds :
          closes[i].pc \in {"save", "edit_admin", "edit_att"} =>
              StepsOf(i, "end") # {}

\* C22: start_session leaves an empty ledger and a session identifier that
\* no earlier session, acknowledgement, record or database row has; and
\* every entry of a drained sequence is a submission acknowledged in that
\* same session.
C22_FreshLedgerAndSession ==
    [][/\ (ev'.kind = "open_start" /\ ev'.result = "started") =>
            /\ is_active'
            /\ submissions' = <<>>
            /\ session_id' # session_id
            /\ session_id' \notin DOMAIN finalized
            /\ \A a \in acks : a.session_id # session_id'
            /\ \A r \in db : r.session_id # session_id'
       /\ \A s \in DOMAIN finalized' :
            \A k \in 1..Len(finalized'[s]) :
                \E a \in acks' :
                    /\ a.session_id = s
                    /\ a.user_id = finalized'[s][k].user_id
                    /\ a.timestamp = finalized'[s][k].timestamp]_vars

\* C22 witness: the save of a session with a submission failed (no reset),
\* and a later session was drained with its own submission only.
C22_Witness ==
    \E s1 \in reported, s2 \in DOMAIN finalized :
        /\ s1 \in DOMAIN finalized
        /\ s1 # s2
        /\ Len(finalized[s1]) = 1
        /\ Len(finalized[s2]) = 1
        /\ finalized[s1][1].timestamp < finalized[s2][1].timestamp
        /\ \A i \in CloseIds : StepsOf(i, "reset") = {}

\* C24: the current code of an Active session is not empty, has the
\* configured length and is made of characters of the alphabet, which has
\* none of 0, 1, O and I.
C24_CurrentCodeWellFormed ==
    /\ CHAR_SET \subseteq FullCharSet
    /\ FullCharSet \cap Ambiguous = {}
    /\ is_active =>
          /\ current_code # <<>>
          /\ Len(current_code) = CODE_LENGTH
          /\ \A k \in 1..Len(current_code) :
                current_code[k] \in CHAR_SET \ Ambiguous

\* C24 witness: an Active session that has been rotated has a code of the
\* configured length and nobody submitted yet.
C24_Witness ==
    /\ is_active
    /\ prev_code # NoCode
    /\ Len(current_code) = CODE_LENGTH
    /\ SubmissionCount(submissions) = 0

\* C25: a call of generate_code whose token space has two tokens or more
\* returns, whatever previous_code is.
C25_GenerateCodeReturns ==
    (gen.pc = "loop" /\ Cardinality(Codes(gen.length)) >= 2)
        ~> (gen.pc = "returned")

\* C25 witness: the call returned after a draw that gave previous_code
\* again.
C25_Witness ==
    /\ gen.pc = "returned"
    /\ gen.draws >= 2
    /\ gen.previous_code \in Codes(gen.length)
    /\ gen.length = MaxGenLength

DefaultCodeLength == 4

C27_NoStartOnInvalidConfig ==
    LET valid == /\ cfg.token # ""
                 /\ cfg.admin_id > 0
                 /\ cfg.attendance_id > 0
                 /\ cfg.interval >= 5
                 /\ cfg.length >= 3
    IN  /\ cfg.pc = "main" => (Validate(cfg) = "ok" <=> valid)
        /\ cfg.pc \in {"validated", "created", "started"} => valid
        /\ cfg.pc = "returned" => ~valid /\ cfg.error # "none"

\* C27 witness: main returned on a configuration that is valid but for its
\* code length.
C27_Witness ==
    /\ cfg.pc = "returned"
    /\ cfg.error = "length"
    /\ cfg.token # ""
    /\ cfg.admin_id > 0
    /\ cfg.attendance_id > 0
    /\ cfg.interval >= MinInterval

\* C30: the attendance table has at most one row for a participant and a
\* session; after save_attendance_records the one row of each participant
\* of the list is that of the participant's last entry, and after
\* add_manual_attendance the one row of the participant in the session
\* used is the one just written.
C30_OneRowPerUserAndSession ==
    /\ \A r, q \in db :
          (r.user_id = q.user_id /\ r.session_id = q.session_id) => r = q
    /\ dbcall.fn = "save_attendance_records" =>
          \A k \in 1..Len(dbcall.records) :
              LET e == dbcall.records[k]
                  rows == {r \in db : /\ r.user_id = e.user_id
                                      /\ r.session_id = dbcall.session_id}
              IN  /\ Cardinality(rows) = 1
                  /\ (\A m \in (k + 1)..Len(dbcall.records) :
                          dbcall.records[m].user_id # e.user_id)
                     => \A r \in rows : /\ r.timestamp = e.timestamp
                                        /\ r.status = "present"
    /\ dbcall.fn = "add_manual_attendance" =>
          LET rows == {r \in db : /\ r.user_id = dbcall.user_id
                                  /\ r.session_id = dbcall.returned}
          IN  /\ Cardinality(rows) = 1
              /\ \A r \in rows : /\ r.status = dbcall.status
                                 /\ r.date_id = dbcall.date_id
                                 /\ r.timestamp = Now

\* C30 witness: add_manual_attendance wrote over the row the participant
\* had in that session, and the row another participant has in the session
\* is untouched.
C30_Witness ==
    /\ dbcall.fn = "add_manual_attendance"
    /\ dbcall.replaced = 1
    /\ dbcall.status = "excused"
    /\ Cardinality(db) = 2
    /\ \E r \in db : r.user_id # dbcall.user_id /\ r.status = "present"
                     /\ r.session_id = dbcall.returned

\* C23: the sequence end_session returns is in ascending order of the
\* timestamps, and so is the list a close_attendance hands to the save.
C23_DrainOrderedByTimestamp ==
    /\ \A s \in DOMAIN finalized :
          \A k \in 1..(Len(finalized[s]) - 1) :
              finalized[s][k].timestamp < finalized[s][k + 1].timestamp
    /\ \A i \in CloseIds :
          \A k \in 1..(Len(closes[i].records) - 1) :
              closes[i].records[k].timestamp
                  < closes[i].records[k + 1].timestamp

\* C23 witness: participant 2 submitted on the first day; on the last day
\* two submissions were accepted, the second of them by participant 1,
\* whose entry it overwrote.  Participant 2 comes first.
C23_Witness ==
    \E s \in DOMAIN finalized :
        /\ s # 1
        /\ Len(finalized[s]) = 2
        /\ finalized[s][1].user_id = 2
        /\ finalized[s][1].timestamp < TicksPerDay
        /\ finalized[s][2].user_id = 1
        /\ finalized[s][2].timestamp = MaxDays * TicksPerDay + 2

\* The participants of a list of records.
UsersOf(records) == {records[k].user_id : k \in 1..Len(records)}

\* C28 as stated: when the save of a close_attendance returns, the count it
\* returned is the length of the list and the number of rows the table has
\* for the session; an empty list is not written and counts 0.
C28_SavedCountIsRowCount ==
    [][\A i \in CloseIds :
          /\ (closes[i].pc = "save" /\ closes'[i].pc # "save"
              /\ closes'[i].pc # "done") =>
                /\ closes'[i].saved_count = Len(closes[i].records)
                /\ closes'[i].saved_count =
                     Cardinality({r \in db' :
                                    r.session_id = closes[i].session_id})
          /\ (closes[i].pc \in {"idle", "await_task"}
              /\ closes'[i].pc \in {"edit_admin", "edit_att"}) =>
                /\ closes'[i].saved_count = 0
                /\ db' = db]_vars

\* C28: when the save of a close_attendance returns, the count it returned
\* is the length of the list and the number of rows the table has for the
\* participants of the list in the session, each written by this call; it
\* is the number of all rows of the session when the table had no row of
\* the session for anybody else.  An empty list is not written and counts
\* 0.
C28_SavedCountIsRowsWritten ==
    [][\A i \in CloseIds :
          /\ (closes[i].pc = "save" /\ closes'[i].pc # "save"
              /\ closes'[i].pc # "done") =>
                LET sid == closes[i].session_id
                    records == closes[i].records
                    written == {r \in db' : /\ r.session_id = sid
                                            /\ r.user_id \in UsersOf(records)}
                    others == {r \in db : /\ r.session_id = sid
                                          /\ r.user_id \notin UsersOf(records)}
                IN  /\ closes'[i].saved_count = Len(records)
                    /\ closes'[i].saved_count = Cardinality(written)
                    /\ \A r \in written :
                          \E k \in 1..Len(records) :
                              /\ records[k].user_id = r.user_id
                              /\ records[k].timestamp = r.timestamp
                    /\ Cardinality({r \in db' : r.session_id = sid})
                          = closes'[i].saved_count + Cardinality(others)
          /\ (closes[i].pc \in {"idle", "await_task"}
              /\ closes'[i].pc \in {"edit_admin", "edit_att"}) =>
                /\ closes'[i].saved_count = 0
                /\ db' = db]_vars

\* C28 witness: a save returned 1 for a session of which the table has two
\* rows, one of them written by mark_present before the save.
C28_Witness ==
    \E i \in CloseIds :
        /\ closes[i].pc \in {"edit_admin", "edit_att"}
        /\ closes[i].saved_count = 1
        /\ StepsOf(i, "saved") # {}
        /\ Cardinality({r \in db : r.session_id = closes[i].session_id}) = 2
        /\ \A j \in AdminIds : admins[j].pc = "done"

\* A command invoked in a channel that is not the one it is for.
WrongChannelStep ==
    \/ \E u \in Users, text \in Texts, ch \in Channels \ {AttendanceChannel} :
          Here(u, text, ch)
    \/ \E ch \in Channels \ {AdminChannel} :
          \/ \E i \in OpenIds : OpenBegin(i, ch)
          \/ \E i \in CloseIds : CloseBegin(i, ch)
          \/ \E sid \in SessionArgs : ExportCsv(ch, sid)
          \/ \E j \in AdminIds, student \in StudentArgs,
                date \in CommandDates, sid \in SessionArgs :
                \/ Excuse(j, ch, student, date)
                \/ MarkPresent(j, ch, student, date, sid)
                \/ RemoveAttendanceCommand(j, ch, student, date, sid)

\* C29: a command invoked in the wrong channel is answered with the
\* refusal and changes nothing else: not the session, the ledger, the
\* rotation task or the table, and no handler is left about to change them.
C29_WrongChannelChangesNothing ==
    [][(WrongChannelStep \/ ev'.result = "wrong_channel") =>
          /\ ev'.result = "wrong_channel"
          /\ UNCHANGED <<sessVars, attendance_message_id, rotation_task,
                         tasks, opens, closes, admins, db, display, clock,
                         today, prev_code, acks, finalized, reported,
                         close_log>>]_vars

\* C29 witness: here was refused in the wrong channel while a session is
\* Active and nobody has submitted.
C29_Witness ==
    /\ is_active
    /\ ev.kind = "here"
    /\ ev.result = "wrong_channel"
    /\ SubmissionCount(submissions) = 0
    /\ \A j \in AdminIds : admins[j].pc = "idle"

\* A remove_attendance command (invocation j) given neither a date nor a
\* session, in the operator's channel.
RemoveWithoutFilter(j) ==
    \E student \in StudentArgs :
        RemoveAttendanceCommand(j, AdminChannel, student, NoDate, NoId)

\* C31: remove_attendance and update_attendance_status called with neither
\* a date nor a session return 0 and leave the table as it is; the
\* remove_attendance command given neither replies that a filter is
\* required, leaves the table as it is and is over without a removal
\* pending.
C31_NoFilterNoChange ==
    [][/\ (/\ dbcall'.n = dbcall.n + 1
           /\ dbcall'.fn \in {"remove_attendance", "update_attendance_status"}
           /\ dbcall'.date_id = NoDate
           /\ dbcall'.session_id = NoId) =>
             /\ dbcall'.returned = 0
             /\ db' = db
       /\ \A j \in AdminIds :
             RemoveWithoutFilter(j) =>
                /\ ev'.result = "filter_required"
                /\ db' = db
                /\ dbcall' = dbcall
                /\ admins'[j] = AdminDone]_vars

\* C31 witness: update_attendance_status was called with neither filter
\* for a participant who has a present row, the row is still present, and
\* the operator's remove_attendance without a filter has been refused.
C31_Witness ==
    /\ dbcall.fn = "update_attendance_status"
    /\ dbcall.date_id = NoDate
    /\ dbcall.session_id = NoId
    /\ dbcall.status = "excused"
    /\ dbcall.returned = 0
    /\ \E r \in db : r.user_id = dbcall.user_id /\ r.status = "present"
    /\ ev.result = "filter_required"

\* C32: when the excuse command reports success for a student and a date,
\* the student has a row of that date and every row the student has of
\* that date is excused.
C32_ExcusedAfterSuccess ==
    [][\A j \in AdminIds :
          (/\ admins[j].pc = "write"
           /\ admins[j].cmd = "excuse"
           /\ admins'[j].pc = "done"
           /\ ev'.kind = "excuse"
           /\ ev'.result \in {"updated", "created"}) =>
             LET rows == {r \in db' : /\ r.user_id = admins[j].user_id
                                      /\ r.date_id = admins[j].date_id}
             IN  /\ rows # {}
                 /\ \A r \in rows : r.status = "excused"]_vars

LiveTasks == {t \in OpenIds : tasks[t].pc \in {"new", "sleep", "edit"}}

\* C34: while a session is Active at most one rotation task is live, and a
\* rotation task that writes a new code writes it to the session it was
\* created for.
C34_OneRotationLoop ==
    [][/\ is_active' => Cardinality(LiveTasks)' <= 1
       /\ \A t \in OpenIds :
             (/\ tasks[t].pc = "sleep"
              /\ tasks'[t] # tasks[t]
              /\ current_code' # current_code) => session_id = t]_vars

\* C35: every step that makes an Active session Inactive is the
\* end_session of a close_attendance, which returns the ledger of that
\* session; in particular no reset() does it.
C35_OnlyEndSessionDeactivates ==
    [][(is_active /\ ~is_active') =>
          /\ finalized' = [s \in DOMAIN finalized \cup {session_id} |->
                              IF s = session_id THEN Drain(submissions)
                              ELSE finalized[s]]
          /\ \E i \in CloseIds :
                /\ Len(close_log'[i]) > Len(close_log[i])
                /\ \E k \in (Len(close_log[i]) + 1)..Len(close_log'[i]) :
                      close_log'[i][k] =
                          Step("end", session_id, Drain(submissions))
                /\ \A k \in 1..Len(close_log'[i]) :
                      close_log'[i][k].step # "reset"]_vars

\* C36: while a session is Active its admin message shows the current
\* code or the code that was current before the last rotation.
C36_DisplayAtMostOneBehind ==
    is_active => display[message_id] \in {current_code, prev_code}

\* C37: the rows of the attendance table that have the same session_id
\* have the same date_id.
C37_SessionHasOneDate ==
    \A r, q \in db : r.session_id = q.session_id => r.date_id = q.date_id

====
